---- MODULE Spec2Model ----
(***************************************************************************)
(* A model of the SQL Server Agent automated-test helpers:                 *)
(*   - the evaluation poller (VerifyEvaluationRun and its sub-steps) of    *)
(*     AgentHelper and IntegrationHelper,                                  *)
(*   - the lifecycle driver (StartService, VerifyAgentRunning),            *)
(*   - the script materializer of LoadtestHelper.SetupHammerDB,            *)
(*   - the load-test result aggregator (ProcessLoadTestResult and          *)
(*     GenerateLoadTestResult),                                            *)
(*   - the installer of AgentHelper (AddRepo, InstallAgent,                *)
(*     UpdateConfiguration, ReadConfiguration),                            *)
(*   - the script senders (IntegrationHelper.SetUpAgent and                *)
(*     SoakTestHelper.RunUploadLogFileScript),                             *)
(*   - the load test itself (LoadTest.testLoadTest), the test class        *)
(*     LoadTest with its three tests, and SoakTest.testSoakTest.           *)
(* Text is modelled as a sequence of one-character strings, so that        *)
(* split, strip, startswith, replace and int() are computed as Python      *)
(* computes them.  The remote executor is the environment: every           *)
(* RunCommandOnVm call draws its (stdout, stderr) from a small set.        *)
(***************************************************************************)
EXTENDS Integers, Sequences, FiniteSets, TLC

VARIABLES
  helper,            \* the helper class of the object: "AgentHelper", "IntegrationHelper",
                     \* "SoakTestHelper" or "LoadtestHelper"
  windows,           \* AgentHelper._windows
  repo_version,      \* _repo_version
  op,                \* the operation that is running or has ended ("" before any)
  pc,                \* position of the running operation
  trace,             \* remote commands issued and sleeps taken, in order
  exc,               \* the exception the operation ended with (type "" when none)
  endpoint,          \* VerifyEvaluationRun: endpoint
  evaluation_id,     \* VerifyEvaluationRun: evaluation_id
  execution_id,      \* VerifyEvaluationRun: execution_id
  out,               \* stdout of the last remote command
  i,                 \* _GetExecutionStatus: the loop index
  responses,         \* what each remote command of trace returned: [op, out, err]
  execution_status,  \* VerifyEvaluationRun: execution_status
  target_vm_id,      \* IntegrationHelper.VerifyAgentRunning: target_vm_id
  status,            \* StartService / VerifyAgentRunning: status
  log_out,           \* VerifyAgentRunning: out, the text of the agent log
  file_content,      \* SetupHammerDB: file_content, the text of setups.tcl
  server_ip,         \* SetupHammerDB: self._vm_sqlserver.GetPrivateIp()
  pswd,              \* SetupHammerDB: pswd, the secret's value
  result,            \* SetupHammerDB: result, the script after both replacements
  agent_installed,   \* ProcessLoadTestResult: agent_installed
  raw_log,           \* ProcessLoadTestResult: what _GetLoadTestResult returned
  samples,           \* ProcessLoadTestResult: the seven sample lists
  mean,              \* LoadtestHelper: self.mean_<metric>
  mean_agent_installed, \* LoadtestHelper: self.mean_<metric>_agent_installed
  report,            \* GenerateLoadTestResult: result, line by line
  processed,         \* the values of agent_installed ProcessLoadTestResult was called with
  script,            \* SetUpAgent: script; RunUploadLogFileScript: script_content
  config,            \* SetUpAgent: config; UpdateConfiguration: config_json
  jobs,              \* the background jobs that were started and not stopped, with their hosts
  step,              \* the statement of the running test that runs next
  test,              \* the test method that is running ("" when a helper is used alone)
  failed,            \* the test methods that ended with an exception
  calls,             \* the helper calls of the running test that returned, in order
  result_log,        \* the tests whose background job wrote rows to the result log
  bucket,            \* the blobs copied to the bucket, in order
  day,               \* testSoakTest: the outer loop index
  hour               \* testSoakTest: the inner loop index

cfgVars == <<helper, windows, repo_version>>

pollVars == <<endpoint, evaluation_id, execution_id, out, i, execution_status>>

agentVars == <<target_vm_id, status, log_out>>

renderVars == <<file_content, server_ip, pswd, result>>

aggregatorVars == <<agent_installed, raw_log, samples, mean, mean_agent_installed,
                    report, processed>>

loadtestVars == <<renderVars, aggregatorVars>>

setupVars == <<script, config, jobs, step>>

testVars == <<test, failed, calls, result_log, bucket, day, hour>>

vars == <<cfgVars, op, pc, trace, exc, responses, pollVars, agentVars, loadtestVars,
          setupVars, testVars>>

(***************************************************************************)
(* Text helpers (Python str methods on sequences of characters).           *)
(***************************************************************************)

\* str.split(sep) for a one-character separator: the pieces between the
\* occurrences of sep, so always one piece more than there are separators.
SplitOn(s, sep) ==
  LET at == {k \in 1..Len(s) : s[k] = sep}
      \* the n-th cut: 0, then the separators in order, then Len(s) + 1
      cuts == {0, Len(s) + 1} \cup at
      cut(n) == CHOOSE c \in cuts : Cardinality({d \in cuts : d < c}) = n
  IN  [n \in 1..(Cardinality(at) + 1) |-> SubSeq(s, cut(n - 1) + 1, cut(n) - 1)]

\* sep.join(pieces)
RECURSIVE Join(_, _)
Join(pieces, sep) ==
  IF pieces = <<>> THEN <<>>
  ELSE IF Len(pieces) = 1 THEN Head(pieces)
  ELSE Head(pieces) \o <<sep>> \o Join(Tail(pieces), sep)

\* str.startswith(prefix)
StartsWith(s, prefix) ==
  Len(s) >= Len(prefix) /\ SubSeq(s, 1, Len(prefix)) = prefix

Whitespace == {" ", "\t", "\r", "\n"}

\* str.lstrip(): drop the whitespace before the first other character
LStrip(s) ==
  LET keep == {k \in 1..Len(s) : s[k] \notin Whitespace} IN
  IF keep = {} THEN <<>>
  ELSE SubSeq(s, CHOOSE k \in keep : \A j \in keep : k <= j, Len(s))

\* str.rstrip(): drop the whitespace after the last other character
RStrip(s) ==
  LET keep == {k \in 1..Len(s) : s[k] \notin Whitespace} IN
  IF keep = {} THEN <<>>
  ELSE SubSeq(s, 1, CHOOSE k \in keep : \A j \in keep : k >= j)

\* str.strip()
Strip(s) == RStrip(LStrip(s))

\* the concatenation of a sequence of texts
RECURSIVE Concat(_)
Concat(ss) == IF ss = <<>> THEN <<>> ELSE Head(ss) \o Concat(Tail(ss))

(***************************************************************************)
(* Constructor arguments and the remote executor.                          *)
(***************************************************************************)

VALID_REPO_VALUES == {"none", "stable", "unstable", "google3"}

Helpers == {"AgentHelper", "IntegrationHelper"}

NoException == [type |-> "", msg |-> <<>>]

Raise(t, m) == [type |-> t, msg |-> m]

\* One remote command: the operation that issued it, the VM object it was sent to
\* and the command string (a sequence of its parts; <<>> is the empty string '').
Cmd(o, host, text) == [kind |-> "cmd", op |-> o, host |-> host, cmd |-> text]

\* time.sleep(secs)
Sleep(o, secs) == [kind |-> "sleep", op |-> o, host |-> "", cmd |-> <<secs>>]

\* stderr of a remote command: empty, or some error text
StdErrs == {<<>>, <<"e", "r", "r">>}

\* The VM object the evaluation calls go to: AgentHelper._vm, or
\* IntegrationHelper._vm_win_local.
EvalHost == IF helper = "AgentHelper" THEN "_vm" ELSE "_vm_win_local"

(***************************************************************************)
(* The evaluation poller.                                                  *)
(***************************************************************************)

\* The evaluations the list call may report: each name ends in the id.
EvaluationNames == {
  <<"p", "/", "e", "/", "A">>,
  <<"p", "/", "e", "/", "B">> }

\* stdout of the list call, parsed: the 'evaluations' array
EvaluationLists ==
  { <<>> } \cup { <<n>> : n \in EvaluationNames }
           \cup { <<n, m>> : n \in EvaluationNames, m \in EvaluationNames }

\* uuid.uuid4()
ExecutionIds == {"uuid-1", "uuid-2"}

\* The 'state' field of a status response; "#" stands for a body json.loads or
\* ['state'] rejects.
ExecutionStates == {"RUNNING", "SUCCEEDED", "FAILED", "PENDING", "#"}

\* for i in range(0, 10)
PollLoopCount == 10

\* time.sleep(60)
PollSleepSeconds == 60

\* return 'FAILED' after the loop
ExhaustedStatusLast == out

ExhaustedStatus == "FAILED"

EndpointOf(rv) ==
  IF rv = "google3" THEN "autopush-workloadmanager.sandbox.googleapis.com"
  ELSE "workloadmanager.googleapis.com"

\* The command strings of the three calls.  AgentHelper leaves cmd = '' unless
\* self._windows (except in _ListEvaluations); IntegrationHelper always builds it.
ListCmd == <<"GET", endpoint, "evaluations">>

\* the trigger built with an execution id of its own
RunCmdOwnId(u) == <<"POST", endpoint, evaluation_id, "executions:run", "uuid-1">>

RunCmd(u) ==
  IF helper = "AgentHelper" /\ ~windows THEN <<>>
  ELSE <<"POST", endpoint, evaluation_id, "executions:run", u>>

StatusCmd ==
  IF helper = "AgentHelper" /\ ~windows THEN <<>>
  ELSE <<"GET", endpoint, evaluation_id, "executions", execution_id>>

\* time.sleep(60), then the status command again
PollAgainNoSleep(tr) ==
  Append(tr, Cmd("_GetExecutionStatus", EvalHost, StatusCmd))

PollAgain(tr) ==
  tr \o << Sleep("_GetExecutionStatus", PollSleepSeconds),
           Cmd("_GetExecutionStatus", EvalHost, StatusCmd) >>

\* if execution_status == 'FAILED'
IsFailedTypo(s) == s = "FAILURE"

IsFailed(s) == s = "FAILED"

\* the seven metrics, in the order the code handles them
Metrics == <<"trans_per_sec", "lock_reqs_per_sec", "lock_timeouts_per_sec",
             "lock_waits_per_sec", "deadlocks_per_sec", "wait_time",
             "latch_wait_time">>

MetricSet == {Metrics[k] : k \in 1..Len(Metrics)}

\* no operation has been called yet; LoadtestHelper.__init__ sets every mean to 0
InitCall ==
  /\ op = ""
  /\ pc = "idle"
  /\ trace = <<>>
  /\ exc = NoException
  /\ endpoint = ""
  /\ evaluation_id = <<>>
  /\ execution_id = ""
  /\ out = ""
  /\ i = 0
  /\ responses = <<>>
  /\ execution_status = ""
  /\ target_vm_id = 0
  /\ status = <<>>
  /\ log_out = <<>>
  /\ file_content = <<>>
  /\ server_ip = <<>>
  /\ pswd = <<>>
  /\ result = <<>>
  /\ agent_installed = FALSE
  /\ raw_log = <<>>
  /\ samples = [m \in MetricSet |-> <<>>]
  /\ mean = [m \in MetricSet |-> 0]
  /\ mean_agent_installed = [m \in MetricSet |-> 0]
  /\ report = <<>>
  /\ processed = {}
  /\ script = <<>>
  /\ config = <<>>
  /\ jobs = {}
  /\ failed = {}
  /\ calls = <<>>
  /\ result_log = {}
  /\ bucket = <<>>
  /\ day = 0
  /\ hour = 0

\* an AgentHelper(vm, windows, repo_version) or an IntegrationHelper(repo_version, ...)
Init ==
  /\ helper \in Helpers
  /\ windows \in BOOLEAN
  /\ (helper = "IntegrationHelper" => windows)
  /\ repo_version \in VALID_REPO_VALUES
  /\ InitCall
  /\ step = ""
  /\ test = ""

\* a LoadtestHelper(vm_sqlserver, vm_hammerdb, hammerdb_version); both VMs are
\* Windows VMs (loadtest.py)
InitLoadtest ==
  /\ helper = "LoadtestHelper"
  /\ windows = TRUE
  /\ repo_version = "unstable"
  /\ InitCall
  /\ step = ""
  /\ test = ""

\* what a remote command returned
Response(o, stdout, stderr) == [op |-> o, out |-> stdout, err |-> stderr]

\* VerifyEvaluationRun, up to the call of _ListEvaluations
VerifyEvaluationRun_Begin ==
  /\ pc = "idle"
  /\ helper \in Helpers
  /\ op' = "VerifyEvaluationRun"
  /\ endpoint' = EndpointOf(repo_version)
  /\ pc' = "ListEvaluations"
  /\ UNCHANGED <<cfgVars, testVars, setupVars, loadtestVars, trace, exc, responses, evaluation_id, execution_id,
                 out, i, execution_status, agentVars>>

\* _ListEvaluations: one remote call, then evaluations[0].name.split('/')[-1]
ListEvaluations ==
  /\ pc = "ListEvaluations"
  /\ trace' = Append(trace, Cmd("_ListEvaluations", EvalHost, ListCmd))
  /\ \E err \in StdErrs, evals \in EvaluationLists :
       /\ responses' = Append(responses, Response("_ListEvaluations", evals, err))
       /\ IF err # <<>>
          THEN /\ exc' = Raise("EvaluationExecutionError", err)
               /\ pc' = "raised"
               /\ UNCHANGED evaluation_id
          ELSE IF evals = <<>>
          THEN /\ exc' = Raise("IndexError", <<>>)
               /\ pc' = "raised"
               /\ UNCHANGED evaluation_id
          ELSE /\ LET parts == SplitOn(evals[1], "/") IN
                    evaluation_id' = parts[Len(parts)]
               /\ pc' = "RunEvaluation"
               /\ UNCHANGED exc
  /\ UNCHANGED <<cfgVars, testVars, setupVars, loadtestVars, op, endpoint, execution_id, out, i, execution_status,
                 agentVars>>

\* execution_id = uuid.uuid4(), then _RunEvaluation
RunEvaluation ==
  /\ pc = "RunEvaluation"
  /\ \E u \in ExecutionIds :
       /\ execution_id' = u
       /\ trace' = Append(trace, Cmd("_RunEvaluation", EvalHost, RunCmd(u)))
  /\ \E err \in StdErrs :
       /\ responses' = Append(responses, Response("_RunEvaluation", <<>>, err))
       /\ IF err # <<>>
          THEN exc' = Raise("EvaluationExecutionError", err) /\ pc' = "raised"
          ELSE pc' = "GetExecutionStatus" /\ UNCHANGED exc
  /\ UNCHANGED <<cfgVars, testVars, setupVars, loadtestVars, op, endpoint, evaluation_id, out, i, execution_status,
                 agentVars>>

\* _GetExecutionStatus: the call before the loop
GetExecutionStatus_First ==
  /\ pc = "GetExecutionStatus"
  /\ trace' = Append(trace, Cmd("_GetExecutionStatus", EvalHost, StatusCmd))
  /\ \E err \in StdErrs, s \in ExecutionStates :
       /\ responses' = Append(responses, Response("_GetExecutionStatus", s, err))
       /\ IF err # <<>>
          THEN /\ exc' = Raise("EvaluationExecutionError", err)
               /\ pc' = "raised"
               /\ UNCHANGED out
          ELSE /\ out' = s
               /\ pc' = "PollLoop"
               /\ UNCHANGED exc
  /\ i' = 0
  /\ UNCHANGED <<cfgVars, testVars, setupVars, loadtestVars, op, endpoint, evaluation_id, execution_id,
                 execution_status, agentVars>>

\* one iteration of the loop: inspect out, then sleep and poll again, or return
GetExecutionStatus_Iterate ==
  /\ pc = "PollLoop"
  /\ i < PollLoopCount
  /\ IF out = "#"
     THEN /\ exc' = Raise("ValueError", <<>>)
          /\ pc' = "raised"
          /\ UNCHANGED <<trace, out, i, responses, execution_status>>
     ELSE IF out = "RUNNING"
     THEN /\ trace' = PollAgain(trace)
          /\ \E err \in StdErrs, s \in ExecutionStates :
               /\ responses' =
                    Append(responses, Response("_GetExecutionStatus", s, err))
               /\ IF err # <<>>
                  THEN /\ exc' = Raise("EvaluationExecutionError", err)
                       /\ pc' = "raised"
                       /\ UNCHANGED <<out, i>>
                  ELSE /\ out' = s
                       /\ i' = i + 1
                       /\ UNCHANGED <<exc, pc>>
          /\ UNCHANGED execution_status
     ELSE /\ execution_status' = out
          /\ pc' = "PollReturned"
          /\ UNCHANGED <<trace, exc, out, i, responses>>
  /\ UNCHANGED <<cfgVars, testVars, setupVars, loadtestVars, op, endpoint, evaluation_id, execution_id, agentVars>>

\* the loop ran out: return 'FAILED'
GetExecutionStatus_Exhausted ==
  /\ pc = "PollLoop"
  /\ i >= PollLoopCount
  /\ execution_status' = ExhaustedStatus
  /\ pc' = "PollReturned"
  /\ UNCHANGED <<cfgVars, testVars, setupVars, loadtestVars, op, trace, exc, responses, endpoint, evaluation_id,
                 execution_id, out, i, agentVars>>

\* VerifyEvaluationRun, after _GetExecutionStatus returned
VerifyEvaluationRun_End ==
  /\ pc = "PollReturned"
  /\ IF IsFailed(execution_status)
     THEN exc' = Raise("EvaluationExecutionError", <<execution_id, evaluation_id>>)
          /\ pc' = "raised"
     ELSE pc' = "returned" /\ UNCHANGED exc
  /\ UNCHANGED <<cfgVars, testVars, setupVars, loadtestVars, op, trace, responses, pollVars, agentVars>>

NextPoll ==
  \/ VerifyEvaluationRun_Begin
  \/ ListEvaluations
  \/ RunEvaluation
  \/ GetExecutionStatus_First
  \/ GetExecutionStatus_Iterate
  \/ GetExecutionStatus_Exhausted
  \/ VerifyEvaluationRun_End

SpecPoll == Init /\ [][NextPoll]_vars

(***************************************************************************)
(* The lifecycle driver: StartService and VerifyAgentRunning.              *)
(***************************************************************************)

SQL_SERVER_AGENT_NAME == "google-cloud-sql-server-agent"

SQL_SERVER_AGENT_LOG_PATH_WINDOWS ==
  "C:\\ProgramData\\Google\\google-cloud-sql-server-agent\\logs\\google-cloud-sql-server-agent.log"

SQL_SERVER_AGENT_LOG_PATH_LINUX == "/var/log/google-cloud-sql-server-agent.log"

VM_ID_WIN_LOCAL == 0

VM_ID_WIN_REMOTE == 1

VM_ID_RHEL == 2

VM_ID_SUSE == 3

VmIds == {VM_ID_WIN_LOCAL, VM_ID_WIN_REMOTE, VM_ID_RHEL, VM_ID_SUSE}

\* 'Running'
RunningText == <<"R", "u", "n", "n", "i", "n", "g">>

StoppedText == <<"S", "t", "o", "p", "p", "e", "d">>

\* stdout of the status query, as PowerShell prints it
StatusOutputs == {
  RunningText \o <<"\r", "\n">>,
  RunningText,
  <<" ">> \o RunningText \o <<"\n">> \o StoppedText,
  StoppedText \o <<"\r", "\n">>,
  <<>> }

\* '{"level":"error"'
ErrorMarker ==
  <<"{", "\"", "l", "e", "v", "e", "l", "\"", ":", "\"", "e", "r", "r", "o", "r", "\"">>

\* the lines an agent log is made of: error lines (one ending in a carriage
\* return, as in a CRLF log), an indented error line, an info line, an empty line
LogLines == {
  ErrorMarker \o <<",", "a", "}">>,
  ErrorMarker \o <<",", "b", "}", "\r">>,
  <<" ">> \o ErrorMarker \o <<",", "c", "}">>,
  <<"{", "\"", "l", "e", "v", "e", "l", "\"", ":", "\"", "i", "n", "f", "o", "\"", "}">>,
  <<>> }

\* the most lines a log of the model has
MaxLogLines == 3

\* the log texts the read command may return
LogTexts ==
  { Join(ls, "\n") :
      ls \in UNION { [1..n -> LogLines] : n \in 0..MaxLogLines } }

\* f'Unexpected error happens during the run. \n{err_msg}': the fixed part
ErrorHeader == <<"Unexpected error happens during the run. ", "\n">>

\* if line.startswith('{"level":"error"')
IsErrorLineStripped(line) == StartsWith(Strip(line), ErrorMarker)

IsErrorLine(line) == StartsWith(line, ErrorMarker)

\* the loop over out.split('\n'): err_msg
RECURSIVE ErrMsg(_)
ErrMsg(lines) ==
  IF lines = <<>> THEN <<>>
  ELSE (IF IsErrorLine(Head(lines)) THEN Strip(Head(lines)) \o <<"\n">> ELSE <<>>)
       \o ErrMsg(Tail(lines))

\* the loop over out.split('\n'): has_err
RECURSIVE HasErr(_)
HasErr(lines) ==
  IF lines = <<>> THEN FALSE
  ELSE IsErrorLine(Head(lines)) \/ HasErr(Tail(lines))

\* expected_status of AgentHelper.VerifyAgentRunning
ExpectedStatus == IF windows THEN RunningText ELSE <<>>

\* command strings of AgentHelper ('' unless self._windows)
ServiceStatusCmd ==
  IF windows THEN <<"$(Get-Service -Name", SQL_SERVER_AGENT_NAME, ").Status">> ELSE <<>>

StopServiceCmd ==
  IF windows THEN <<"Stop-Service -Name", SQL_SERVER_AGENT_NAME>> ELSE <<>>

DeleteLogFileCmd ==
  IF windows THEN <<"Remove-Item -Path", SQL_SERVER_AGENT_LOG_PATH_WINDOWS>> ELSE <<>>

StartServiceCmd ==
  IF windows THEN <<"Start-Service -Name", SQL_SERVER_AGENT_NAME>> ELSE <<>>

\* the log-read command, and the VM object it is sent to
ReadLogCmd ==
  IF helper = "AgentHelper"
  THEN (IF windows THEN <<"Get-Content -Path", SQL_SERVER_AGENT_LOG_PATH_WINDOWS>>
        ELSE <<>>)
  ELSE IF target_vm_id \in {VM_ID_WIN_LOCAL, VM_ID_WIN_REMOTE}
  THEN <<"Get-Content -Path", SQL_SERVER_AGENT_LOG_PATH_WINDOWS>>
  ELSE <<"ssh", IF target_vm_id = VM_ID_RHEL THEN "_vm_rhel.GetPrivateIp()"
                ELSE "_vm_suse.GetPrivateIp()",
         "sudo cat", SQL_SERVER_AGENT_LOG_PATH_LINUX>>

ReadLogHost ==
  IF helper = "AgentHelper" THEN "_vm"
  ELSE IF target_vm_id = VM_ID_WIN_REMOTE THEN "_vm_win_remote"
  ELSE "_vm_win_local"

\* StartService stopping the service whatever status it read
AfterStatusAlwaysStop(st) == "StopService"

\* StartService: if status == 'Running', stop and delete the log first
AfterStatus(st) == IF st = RunningText THEN "StopService" ELSE "StartCommand"

\* StartService: self._DeleteLogFile() follows self._StopService()
AfterStopSkipDelete == "StartCommand"

AfterStop == "DeleteLogFile"

\* AgentHelper.StartService is called
StartService_Begin ==
  /\ pc = "idle"
  /\ helper = "AgentHelper"
  /\ op' = "StartService"
  /\ pc' = "StartService_Status"
  /\ UNCHANGED <<cfgVars, testVars, setupVars, loadtestVars, trace, exc, responses, pollVars, agentVars>>

\* _ServiceStatus, called by StartService (pc StartService_Status) or by
\* VerifyAgentRunning (pc VerifyAgentRunning_Status)
ServiceStatus ==
  /\ pc \in {"StartService_Status", "VerifyAgentRunning_Status"}
  /\ trace' = Append(trace, Cmd("_ServiceStatus", "_vm", ServiceStatusCmd))
  /\ \E err \in StdErrs, stdout \in StatusOutputs :
       /\ responses' = Append(responses, Response("_ServiceStatus", stdout, err))
       /\ IF err # <<>>
          THEN /\ exc' = Raise("RunCommandError", err)
               /\ pc' = "raised"
               /\ UNCHANGED status
          ELSE /\ status' = Strip(SplitOn(stdout, "\n")[1])
               /\ IF pc = "StartService_Status"
                  THEN pc' = AfterStatus(status') /\ UNCHANGED exc
                  ELSE IF status' # ExpectedStatus
                  THEN exc' = Raise("AgentExecutionError", status') /\ pc' = "raised"
                  ELSE pc' = "ReadLog" /\ UNCHANGED exc
  /\ UNCHANGED <<cfgVars, testVars, setupVars, loadtestVars, op, pollVars, target_vm_id, log_out>>

\* _StopService
StopService ==
  /\ pc = "StopService"
  /\ trace' = Append(trace, Cmd("_StopService", "_vm", StopServiceCmd))
  /\ \E err \in StdErrs :
       /\ responses' = Append(responses, Response("_StopService", <<>>, err))
       /\ IF err # <<>>
          THEN exc' = Raise("AgentExecutionError", err) /\ pc' = "raised"
          ELSE pc' = AfterStop /\ UNCHANGED exc
  /\ UNCHANGED <<cfgVars, testVars, setupVars, loadtestVars, op, pollVars, agentVars>>

\* _DeleteLogFile
DeleteLogFile ==
  /\ pc = "DeleteLogFile"
  /\ trace' = Append(trace, Cmd("_DeleteLogFile", "_vm", DeleteLogFileCmd))
  /\ \E err \in StdErrs :
       /\ responses' = Append(responses, Response("_DeleteLogFile", <<>>, err))
       /\ IF err # <<>>
          THEN exc' = Raise("RunCommandError", err) /\ pc' = "raised"
          ELSE pc' = "StartCommand" /\ UNCHANGED exc
  /\ UNCHANGED <<cfgVars, testVars, setupVars, loadtestVars, op, pollVars, agentVars>>

\* StartService: the Start-Service command
StartService_Start ==
  /\ pc = "StartCommand"
  /\ trace' = Append(trace, Cmd("StartService", "_vm", StartServiceCmd))
  /\ \E err \in StdErrs :
       /\ responses' = Append(responses, Response("StartService", <<>>, err))
       /\ IF err # <<>>
          THEN exc' = Raise("AgentExecutionError", err) /\ pc' = "raised"
          ELSE pc' = "returned" /\ UNCHANGED exc
  /\ UNCHANGED <<cfgVars, testVars, setupVars, loadtestVars, op, pollVars, agentVars>>

\* VerifyAgentRunning is called: AgentHelper.VerifyAgentRunning() reads the
\* status first, IntegrationHelper.VerifyAgentRunning(target_vm_id) does not
VerifyAgentRunning_Begin ==
  /\ pc = "idle"
  /\ helper \in Helpers
  /\ op' = "VerifyAgentRunning"
  /\ IF helper = "AgentHelper"
     THEN pc' = "VerifyAgentRunning_Status" /\ UNCHANGED target_vm_id
     ELSE pc' = "ReadLog" /\ \E t \in VmIds : target_vm_id' = t
  /\ UNCHANGED <<cfgVars, testVars, setupVars, loadtestVars, trace, exc, responses, pollVars, status, log_out>>

\* VerifyAgentRunning: read the log, then scan its lines
VerifyAgentRunning_ReadLog ==
  /\ pc = "ReadLog"
  /\ trace' = Append(trace, Cmd("VerifyAgentRunning", ReadLogHost, ReadLogCmd))
  /\ \E err \in StdErrs, text \in LogTexts :
       /\ responses' = Append(responses, Response("VerifyAgentRunning", text, err))
       /\ IF err # <<>>
          THEN /\ exc' = Raise("RunCommandError", err)
               /\ pc' = "raised"
               /\ UNCHANGED log_out
          ELSE /\ log_out' = text
               /\ LET lines == SplitOn(text, "\n") IN
                  IF HasErr(lines)
                  THEN /\ exc' = Raise("AgentExecutionError",
                                       ErrorHeader \o ErrMsg(lines))
                       /\ pc' = "raised"
                  ELSE pc' = "returned" /\ UNCHANGED exc
  /\ UNCHANGED <<cfgVars, testVars, setupVars, loadtestVars, op, pollVars, target_vm_id, status>>

NextAgent ==
  \/ StartService_Begin
  \/ ServiceStatus
  \/ StopService
  \/ DeleteLogFile
  \/ StartService_Start
  \/ VerifyAgentRunning_Begin
  \/ VerifyAgentRunning_ReadLog

SpecAgent == Init /\ [][NextAgent]_vars

(***************************************************************************)
(* The script materializer of LoadtestHelper: SetupHammerDB.               *)
(***************************************************************************)

\* the first place (1-based) where sub occurs in s, 0 when it does not:  s.find
Find(s, sub) ==
  LET at == {k \in 1..(Len(s) - Len(sub) + 1) : SubSeq(s, k, k + Len(sub) - 1) = sub}
  IN  IF at = {} THEN 0 ELSE CHOOSE k \in at : \A j \in at : k <= j

\* sub in s
Contains(s, sub) == Find(s, sub) # 0

\* str.replace(old, new), old not empty: the occurrences of old, taken from the
\* left and not overlapping, each replaced by new
RECURSIVE Replace(_, _, _)
Replace(s, old, new) ==
  LET k == Find(s, old) IN
  IF k = 0 THEN s
  ELSE SubSeq(s, 1, k - 1) \o new
       \o Replace(SubSeq(s, k + Len(old), Len(s)), old, new)

\* '%SERVER%'
SERVER_PLACEHOLDER == <<"%", "S", "E", "R", "V", "E", "R", "%">>

\* '%PASSWORD%'
PASSWORD_PLACEHOLDER == <<"%", "P", "A", "S", "S", "W", "O", "R", "D", "%">>

\* texts of load_test/setups.tcl: the placeholders once, the password twice,
\* no placeholder
Templates == {
  <<"s", " ">> \o SERVER_PLACEHOLDER \o <<"\n", "p", " ">> \o PASSWORD_PLACEHOLDER \o <<"\n">>,
  PASSWORD_PLACEHOLDER \o <<" ">> \o PASSWORD_PLACEHOLDER,
  <<"v", "u", "\n">> }

\* private IPs of the SQL Server VM
ServerIps == { <<"1", "0", ".", "0", ".", "0", ".", "2">> }

\* the longest password of the model
MaxPasswordLen == 2

\* the grave accent (U+0060), PowerShell's escape character; written as a
\* token because a TLA+ string cannot hold the character
Backtick == "(grave)"

\* the characters a password is made of
PasswordChars == {"a", "$", Backtick}

\* values of the secret
Passwords == UNION { [1..n -> PasswordChars] : n \in 0..MaxPasswordLen }

\* self._hammerdb_path, for the hammerdb_version the helper was built with
HammerDbPath == <<"C:\\Program Files\\HammerDB-", "{hammerdb_version}">>

\* _SaveFileToHammerDBFolder: cmd, with the content between @"\n and \n"@
SaveFileCmd(filename, content) ==
  <<"Set-Content -Path '">> \o HammerDbPath \o <<"\\", filename, "' -Value @\"", "\n">>
  \o content
  \o <<"\n", "\"@ -Encoding ascii">>

\* _RunTclScripts: cmd
RunTclCmd(filename) ==
  <<"cd '">> \o HammerDbPath \o <<"' ; .\\hammerdbcli tcl auto .\\", filename>>

\* stdout of hammerdbcli: nothing, a normal line, a line with 'error' in it
TclOutputs == {
  <<>>,
  <<"o", "k", "\n">>,
  <<"a", "n", " ", "e", "r", "r", "o", "r", "\n">> }

\* 'error'
ErrorWord == <<"e", "r", "r", "o", "r">>

\* SetupHammerDB: read the template, put in the server's IP and the password
SetupHammerDB ==
  /\ pc = "idle"
  /\ helper = "LoadtestHelper"
  /\ op' = "SetupHammerDB"
  /\ \E t \in Templates, ip \in ServerIps, pw \in Passwords :
       /\ file_content' = t
       /\ server_ip' = ip
       /\ pswd' = pw
       /\ result' = Replace(Replace(t, SERVER_PLACEHOLDER, ip), PASSWORD_PLACEHOLDER, pw)
  /\ pc' = "SaveFile"
  /\ UNCHANGED <<cfgVars, testVars, setupVars, trace, exc, responses, pollVars, agentVars, aggregatorVars>>

\* _SaveFileToHammerDBFolder('setups.tcl', result), called by _RunTclScripts
SaveFileToHammerDBFolder ==
  /\ pc = "SaveFile"
  /\ trace' = Append(trace, Cmd("_SaveFileToHammerDBFolder", "_vm_hammerdb",
                                SaveFileCmd("setups.tcl", result)))
  /\ \E err \in StdErrs :
       /\ responses' = Append(responses, Response("_SaveFileToHammerDBFolder", <<>>, err))
       /\ IF err # <<>>
          THEN exc' = Raise("RunLoadTestError", err) /\ pc' = "raised"
          ELSE pc' = "RunTcl" /\ UNCHANGED exc
  /\ UNCHANGED <<cfgVars, testVars, setupVars, op, pollVars, agentVars, loadtestVars>>

\* _RunTclScripts: run hammerdbcli on the saved script
RunTclScripts ==
  /\ pc = "RunTcl"
  /\ trace' = Append(trace, Cmd("_RunTclScripts", "_vm_hammerdb", RunTclCmd("setups.tcl")))
  /\ \E err \in StdErrs, stdout \in TclOutputs :
       /\ responses' = Append(responses, Response("_RunTclScripts", stdout, err))
       /\ IF err # <<>> \/ Contains(stdout, ErrorWord)
          THEN exc' = Raise("HammerDbSetupError", <<>>) /\ pc' = "raised"
          ELSE pc' = "returned" /\ UNCHANGED exc
  /\ UNCHANGED <<cfgVars, testVars, setupVars, op, pollVars, agentVars, loadtestVars>>

NextRender ==
  \/ SetupHammerDB
  \/ SaveFileToHammerDBFolder
  \/ RunTclScripts

SpecRender == InitLoadtest /\ [][NextRender]_vars

(***************************************************************************)
(* The installer of AgentHelper: AddRepo, InstallAgent, UpdateConfiguration *)
(* and ReadConfiguration.                                                  *)
(***************************************************************************)

\* the exception classes of base/exceptions.py
TypedExceptions == {
  "UnsupportedOsForError", "UnsupportedRepoError", "SshCommandError",
  "PackageInstallError", "RunCommandError", "AgentExecutionError",
  "EvaluationExecutionError", "InvalidArgumentError", "HammerDbSetupError",
  "RunSQLScriptError", "RunLoadTestError" }

SQL_SERVER_AGENT_EXE_PATH ==
  "'C:\\Program Files\\Google\\google-cloud-sql-server-agent\\google-cloud-sql-server-agent.exe'"

SQL_SERVER_AGENT_CONFIG_PATH_WINDOWS ==
  "'C:\\Program Files\\Google\\google-cloud-sql-server-agent\\configuration.json'"

\* self._g3_file_path
G3FilePath ==
  <<"gs://", "sql-server-agent-integration", "/", "{GetCurrentUser()}",
    "/google-cloud-sql-server-agent.exe">>

\* AddRepo: repos, a dict with the keys 'unstable' and 'stable'
repos ==
  [rv \in {"unstable", "stable"} |->
     IF rv = "unstable"
     THEN "https://us-central1-googet.pkg.dev/projects/sql-server-solutions/repos/google-cloud-sql-server-agent-windows-x86-64-unstable"
     ELSE "https://packages.cloud.google.com/yuck/repos/google-cloud-sql-server-agent-windows"]

\* AddRepo: the gsutil command of the google3 path
GsutilCopyCmd == <<"gsutil cp ">> \o G3FilePath \o <<" ", SQL_SERVER_AGENT_EXE_PATH>>

\* AddRepo: cmd on the other paths, '' unless self._windows
AddRepoCmd ==
  IF windows
  THEN <<"googet addrepo", " ", SQL_SERVER_AGENT_NAME, " ", repos[repo_version]>>
  ELSE <<>>

\* InstallAgent: cmd
InstallCmd ==
  IF windows
  THEN (IF repo_version = "google3"
        THEN <<"& ", SQL_SERVER_AGENT_EXE_PATH, " --action=install">>
        ELSE <<"googet -noconfirm install", " ", SQL_SERVER_AGENT_NAME>>)
  ELSE <<>>

\* UpdateConfiguration: cmd
UpdateConfigurationCmd(config_json) ==
  IF windows
  THEN <<"Set-Content -Path", " ", SQL_SERVER_AGENT_CONFIG_PATH_WINDOWS, " -Value", " @\"", "\n">>
       \o config_json \o <<"\n", "\"@ -Encoding ascii">>
  ELSE <<>>

\* ReadConfiguration: cmd
ReadConfigurationCmd ==
  IF windows THEN <<"Get-Content -Path ", SQL_SERVER_AGENT_CONFIG_PATH_WINDOWS>> ELSE <<>>

\* _VerifyAgentInstallation: cmd
VerifyAgentInstallationCmd ==
  IF windows THEN <<"Get-Service -Name", " ", SQL_SERVER_AGENT_NAME>> ELSE <<>>

\* texts of the configuration files under configurations/
Configs == {
  <<"{", "}">>,
  <<"{", "\"", "p", "\"", ":", "\"", "$", "@", "\"", "}", "\n">> }

\* stdout of a command whose output the helper only logs
StdOuts == {<<>>, <<"o", "k">>}

\* the copy command with its stderr looked at, as the other commands are
AfterCopyChecked(err) == IF err # <<>> THEN "raised" ELSE "returned"

\* AddRepo, google3 on Windows: return after the copy command, whatever its stderr
AfterCopy(err) == "returned"

\* AddRepo: one command, or none when repos has no entry for the repo version
AddRepo ==
  /\ pc = "idle"
  /\ helper = "AgentHelper"
  /\ op' = "AddRepo"
  /\ IF windows /\ repo_version = "google3"
     THEN /\ trace' = Append(trace, Cmd("AddRepo", "_vm", GsutilCopyCmd))
          /\ \E err \in StdErrs, stdout \in StdOuts :
               /\ responses' = Append(responses, Response("AddRepo", stdout, err))
               /\ pc' = AfterCopy(err)
               /\ exc' = IF AfterCopy(err) = "raised"
                         THEN Raise("RunCommandError", err) ELSE exc
     ELSE IF windows /\ repo_version \notin DOMAIN repos
     THEN /\ exc' = Raise("KeyError", <<repo_version>>)
          /\ pc' = "raised"
          /\ UNCHANGED <<trace, responses>>
     ELSE /\ trace' = Append(trace, Cmd("AddRepo", "_vm", AddRepoCmd))
          /\ \E err \in StdErrs, stdout \in StdOuts :
               /\ responses' = Append(responses, Response("AddRepo", stdout, err))
               /\ IF err # <<>>
                  THEN exc' = Raise("RunCommandError", err) /\ pc' = "raised"
                  ELSE pc' = "returned" /\ UNCHANGED exc
  /\ UNCHANGED <<cfgVars, testVars, setupVars, pollVars, agentVars, loadtestVars>>

\* InstallAgent: with google3 on Windows the configuration is written first
InstallAgent_Begin ==
  /\ pc = "idle"
  /\ helper = "AgentHelper"
  /\ op' = "InstallAgent"
  /\ pc' = IF windows /\ repo_version = "google3" THEN "UpdateConfiguration" ELSE "Install"
  /\ UNCHANGED <<cfgVars, testVars, setupVars, trace, exc, responses, pollVars, agentVars, loadtestVars>>

\* UpdateConfiguration(configuration), called by the test
UpdateConfiguration_Begin ==
  /\ pc = "idle"
  /\ helper = "AgentHelper"
  /\ op' = "UpdateConfiguration"
  /\ pc' = "UpdateConfiguration"
  /\ UNCHANGED <<cfgVars, testVars, setupVars, trace, exc, responses, pollVars, agentVars, loadtestVars>>

\* UpdateConfiguration: read the file, write it on the VM
UpdateConfiguration ==
  /\ pc = "UpdateConfiguration"
  /\ \E config_json \in Configs, err \in StdErrs :
       /\ config' = config_json
       /\ trace' = Append(trace, Cmd("UpdateConfiguration", "_vm",
                                     UpdateConfigurationCmd(config_json)))
       /\ responses' = Append(responses, Response("UpdateConfiguration", <<>>, err))
       /\ IF err # <<>>
          THEN exc' = Raise("RunCommandError", err) /\ pc' = "raised"
          ELSE /\ pc' = IF op = "InstallAgent" THEN "Install" ELSE "returned"
               /\ UNCHANGED exc
  /\ UNCHANGED <<cfgVars, testVars, op, pollVars, agentVars, loadtestVars, script, jobs, step>>

\* the install command with its stderr not looked at
AfterInstallUnchecked(err) == "VerifyAgentInstallation"

\* InstallAgent: if err: raise, else self._VerifyAgentInstallation()
AfterInstall(err) == IF err # <<>> THEN "raised" ELSE "VerifyAgentInstallation"

\* InstallAgent: the install command
InstallAgent_Install ==
  /\ pc = "Install"
  /\ trace' = Append(trace, Cmd("InstallAgent", "_vm", InstallCmd))
  /\ \E err \in StdErrs, stdout \in StdOuts :
       /\ responses' = Append(responses, Response("InstallAgent", stdout, err))
       /\ pc' = AfterInstall(err)
       /\ exc' = IF AfterInstall(err) = "raised" THEN Raise("RunCommandError", err) ELSE exc
  /\ UNCHANGED <<cfgVars, testVars, setupVars, op, pollVars, agentVars, loadtestVars>>

\* _VerifyAgentInstallation: ask the service manager for the service
VerifyAgentInstallation ==
  /\ pc = "VerifyAgentInstallation"
  /\ trace' = Append(trace, Cmd("_VerifyAgentInstallation", "_vm", VerifyAgentInstallationCmd))
  /\ \E err \in StdErrs, stdout \in StdOuts :
       /\ responses' = Append(responses, Response("_VerifyAgentInstallation", stdout, err))
       /\ IF err # <<>>
          THEN exc' = Raise("RunCommandError", err) /\ pc' = "raised"
          ELSE pc' = "returned" /\ UNCHANGED exc
  /\ UNCHANGED <<cfgVars, testVars, setupVars, op, pollVars, agentVars, loadtestVars>>

\* ReadConfiguration: one command, its stdout returned
ReadConfiguration ==
  /\ pc = "idle"
  /\ helper = "AgentHelper"
  /\ op' = "ReadConfiguration"
  /\ trace' = Append(trace, Cmd("ReadConfiguration", "_vm", ReadConfigurationCmd))
  /\ \E err \in StdErrs, stdout \in Configs :
       /\ responses' = Append(responses, Response("ReadConfiguration", stdout, err))
       /\ IF err # <<>>
          THEN exc' = Raise("RunCommandError", err) /\ pc' = "raised"
          ELSE pc' = "returned" /\ UNCHANGED exc
  /\ UNCHANGED <<cfgVars, testVars, setupVars, pollVars, agentVars, loadtestVars>>

\* an AgentHelper(vm, windows, repo_version)
InitAgentHelper ==
  /\ helper = "AgentHelper"
  /\ windows \in BOOLEAN
  /\ repo_version \in VALID_REPO_VALUES
  /\ InitCall
  /\ step = ""
  /\ test = ""

NextInstall ==
  \/ AddRepo
  \/ InstallAgent_Begin
  \/ UpdateConfiguration_Begin
  \/ UpdateConfiguration
  \/ InstallAgent_Install
  \/ VerifyAgentInstallation
  \/ ReadConfiguration

SpecInstall == InitAgentHelper /\ [][NextInstall]_vars

(***************************************************************************)
(* The script senders: IntegrationHelper.SetUpAgent and                    *)
(* SoakTestHelper.RunUploadLogFileScript.                                  *)
(***************************************************************************)

\* texts of the script files under scripts/
ScriptTemplates == {
  <<"$", "a", "=", "@", "(", "1", ")", "\n">>,
  <<"e", "c", "h", "o", " ", "\"", "$", "H", "\"">>,
  <<Backtick, "$", "x", " ", "@", "y">>,
  <<"e", "x", "i", "t">> }

\* the Windows targets
WindowsVmIds == {VM_ID_WIN_LOCAL, VM_ID_WIN_REMOTE}

\* vm_ip of a Linux target: RHEL's, and SUSE's for every other id
VmIp(t) == IF t = VM_ID_RHEL THEN "{_vm_rhel.GetPrivateIp()}" ELSE "{_vm_suse.GetPrivateIp()}"

\* the VM object the command is run on
ControlHostOfTarget(t) ==
  CASE t = VM_ID_WIN_REMOTE -> "_vm_win_remote"
    [] t = VM_ID_RHEL       -> "_vm_rhel"
    [] t = VM_ID_SUSE       -> "_vm_suse"
    [] OTHER                -> "_vm_win_local"

\* vm_agent: vm_win_remote if the target is VM_ID_WIN_REMOTE, else vm_win_local
ControlHost(t) == IF t = VM_ID_WIN_REMOTE THEN "_vm_win_remote" ELSE "_vm_win_local"

\* the ssh command line up to the here-string
SshPrefix(t) ==
  <<"ssh -o StrictHostKeyChecking=no -i C:\\Users\\local-user\\.ssh\\id_rsa local-user@",
    VmIp(t), " @\"", "\n">>

\* SetUpAgent, Windows branch: script after the two replacements
SetUpScriptWin(text) == Replace(Replace(text, <<"$">>, <<Backtick, "$">>), <<"@">>, <<Backtick, "@">>)

\* SetUpAgent, Linux branch: script after the two replacements
SetUpScriptLinux(text) == Replace(Replace(text, <<"\"">>, <<"\\", "\"">>), <<"$">>, <<Backtick, "$">>)

\* SetUpAgent, Linux branch: config after its replacement
SetUpConfigLinux(text) == Replace(text, <<"\"">>, <<"\\", "\"">>)

\* 'C:\\temp\\setup_agent_win.ps1'
SetUpScriptPath == "C:\\temp\\setup_agent_win.ps1"

\* self._g3_file_path_win
G3FilePathWin == G3FilePath

\* self._g3_file_path_linux
G3FilePathLinux ==
  <<"gs://", "sql-server-agent-integration", "/", "{GetCurrentUser()}",
    "/google-cloud-sql-server-agent">>

\* SetUpAgent: cmd of the Windows branch
SetUpCmdWin(scr, cfg) ==
  <<"New-Item -Path ", SetUpScriptPath, " -Type file -Force;Set-Content -Path", " ",
    SetUpScriptPath, " -Value @\"", "\n">>
  \o scr
  \o <<"\n", "\"@ -Encoding", " ascii;", SetUpScriptPath, " @\"", "\n">>
  \o cfg
  \o <<"\n", "\"@", " ", repo_version, " ">> \o G3FilePathWin

\* the script file of a Linux target
SetUpScriptName(t) == IF t = VM_ID_RHEL THEN "agent-setup-rhel.sh" ELSE "agent-setup-suse.sh"

\* SetUpAgent: cmd of the Linux branch
SetUpCmdLinux(t, scr, cfg) ==
  SshPrefix(t)
  \o <<"echo '">> \o scr \o <<"' > ", SetUpScriptName(t), "\n",
       "chmod 775 ", SetUpScriptName(t), "\n",
       "sudo ./", SetUpScriptName(t), " ", repo_version, " '">>
  \o cfg \o <<"' ">> \o G3FilePathLinux \o <<"\n", "\"@", "\n">>

\* SetUpAgent(t, configuration_name): one command, its result dropped
SetUpAgentCall(t) ==
  /\ pc = "idle"
  /\ helper = "IntegrationHelper"
  /\ op' = "SetUpAgent"
  /\ \E text \in ScriptTemplates, cfg \in Configs :
       /\ target_vm_id' = t
       /\ IF t \in WindowsVmIds
          THEN script' = SetUpScriptWin(text) /\ config' = cfg
          ELSE script' = SetUpScriptLinux(text) /\ config' = SetUpConfigLinux(cfg)
       /\ trace' = Append(trace, Cmd("SetUpAgent", ControlHost(t),
                                     IF t \in WindowsVmIds
                                     THEN SetUpCmdWin(script', config')
                                     ELSE SetUpCmdLinux(t, script', config')))
  /\ \E err \in StdErrs, stdout \in StdOuts :
       responses' = Append(responses, Response("SetUpAgent", stdout, err))
  /\ pc' = "returned"
  /\ UNCHANGED <<cfgVars, testVars, exc, pollVars, status, log_out, loadtestVars, jobs, step>>

\* SetUpAgent called for any of the four VMs
SetUpAgent == \E t \in VmIds : SetUpAgentCall(t)

PS1_FILENAME == "upload_log_file.ps1"

SH_FILENAME == "upload_log_file.sh"

\* ps1_path
Ps1Path == <<"C:\\temp\\", PS1_FILENAME>>

\* RunUploadLogFileScript, Windows branch: script_content after its replacement
UploadScriptWin(text) == Replace(text, <<"$">>, <<Backtick, "$">>)

\* RunUploadLogFileScript, Linux branch: script_content after the two replacements
UploadScriptLinux(text) == Replace(Replace(text, <<"$">>, <<Backtick, "$">>), <<"\"">>, <<"\\", "\"">>)

\* RunUploadLogFileScript: cmd of the Windows branch
UploadCmdWin(scr) ==
  <<"New-Item -Path ">> \o Ps1Path \o <<" -Type file -Force;", "Set-Content -Path ">>
  \o Ps1Path \o <<" -Value", " @\"", "\n">>
  \o scr
  \o <<"\n", "\"@ -Encoding", " ascii -Force;", "Start-Job -FilePath ">> \o Ps1Path

\* RunUploadLogFileScript: cmd of the Linux branch
UploadCmdLinux(t, scr) ==
  SshPrefix(t)
  \o <<"echo '">> \o scr \o <<"' > ", SH_FILENAME, "\n",
       "chmod 775 ", SH_FILENAME, "\n",
       "nohup ./", SH_FILENAME, " > /dev/null 2>&1 &", "\n", "\"@", "\n">>

\* the VM attributes of SoakTestHelper have no underscore
SoakHost(t) == IF t = VM_ID_WIN_REMOTE THEN "vm_win_remote" ELSE "vm_win_local"

\* RunUploadLogFileScript(vm_id): one command, which leaves the script running
\* in the background
RunUploadLogFileScript ==
  /\ pc = "idle"
  /\ helper = "SoakTestHelper"
  /\ op' = "RunUploadLogFileScript"
  /\ \E t \in VmIds, text \in ScriptTemplates, err \in StdErrs :
       /\ target_vm_id' = t
       /\ script' = IF t \in WindowsVmIds THEN UploadScriptWin(text)
                    ELSE UploadScriptLinux(text)
       /\ trace' = Append(trace, Cmd("RunUploadLogFileScript", SoakHost(t),
                                     IF t \in WindowsVmIds THEN UploadCmdWin(script')
                                     ELSE UploadCmdLinux(t, script')))
       /\ responses' = Append(responses, Response("RunUploadLogFileScript", <<>>, err))
       /\ IF err # <<>>
          THEN exc' = Raise("RunCommandError", err) /\ pc' = "raised" /\ UNCHANGED jobs
          ELSE /\ jobs' = jobs \cup {[host |-> SoakHost(t), name |-> "upload_log_file"]}
               /\ pc' = "returned"
               /\ UNCHANGED exc
  /\ UNCHANGED <<cfgVars, testVars, pollVars, status, log_out, loadtestVars, config, step>>

\* an IntegrationHelper(repo_version, ...) or a SoakTestHelper(...); every VM
\* they send commands to is a Windows VM
InitSetUp ==
  /\ helper \in {"IntegrationHelper", "SoakTestHelper"}
  /\ windows = TRUE
  /\ repo_version \in VALID_REPO_VALUES
  /\ (helper = "SoakTestHelper" => repo_version = "none")
  /\ InitCall
  /\ step = ""
  /\ test = ""

NextSetUp ==
  \/ SetUpAgent
  \/ VerifyAgentRunning_Begin
  \/ VerifyAgentRunning_ReadLog
  \/ RunUploadLogFileScript

SpecSetUp == InitSetUp /\ [][NextSetUp]_vars

(***************************************************************************)
(* Claims about the script materializer, under SpecRender.                 *)
(***************************************************************************)

\* the password with every '$' escaped for a PowerShell here-string
EscapeDollar(s) == Replace(s, <<"$">>, <<Backtick, "$">>)

\* the first command of SetupHammerDB has been issued
SetupSaved ==
  op = "SetupHammerDB" /\ trace # <<>> /\ trace[1].op = "_SaveFileToHammerDBFolder"

\* C7 as written: the command SetupHammerDB sends to save the script has, in the
\* place of each %PASSWORD%, the password with every '$' escaped (a grave accent before it).
C7_PasswordDollarEscaped ==
  SetupSaved =>
     trace[1].cmd =
        SaveFileCmd("setups.tcl",
                    Replace(Replace(file_content, SERVER_PLACEHOLDER, server_ip),
                            PASSWORD_PLACEHOLDER, EscapeDollar(pswd)))

(***************************************************************************)
(* The result aggregator of LoadtestHelper: ProcessLoadTestResult and      *)
(* GenerateLoadTestResult.                                                 *)
(***************************************************************************)

Digits == <<"0", "1", "2", "3", "4", "5", "6", "7", "8", "9">>

DigitSet == {Digits[k] : k \in 1..Len(Digits)}

DigitValue(c) == CHOOSE d \in 0..9 : Digits[d + 1] = c

\* the text after an optional sign
Unsigned(t) == IF t # <<>> /\ t[1] \in {"+", "-"} THEN Tail(t) ELSE t

\* int(s) returns a value: s, without the whitespace around it, is an optional
\* sign and then digits only, at least one; otherwise int(s) raises ValueError
IsInt(s) ==
  LET d == Unsigned(Strip(s)) IN
  d # <<>> /\ \A k \in 1..Len(d) : d[k] \in DigitSet

RECURSIVE DigitsValue(_)
DigitsValue(d) ==
  IF d = <<>> THEN 0
  ELSE 10 * DigitsValue(SubSeq(d, 1, Len(d) - 1)) + DigitValue(d[Len(d)])

\* int(s), where IsInt(s)
int(s) ==
  LET t == Strip(s) IN
  IF t[1] = "-" THEN 0 - DigitsValue(Unsigned(t)) ELSE DigitsValue(Unsigned(t))

abs(x) == IF x < 0 THEN 0 - x ELSE x

RECURSIVE Sum(_)
Sum(xs) == IF xs = <<>> THEN 0 ELSE Head(xs) + Sum(Tail(xs))

\* round(num / den), den > 0: the nearest integer, the even one of the two when
\* num / den lies halfway between them
round(num, den) ==
  LET q == num \div den
      r == num % den
  IN  IF 2 * r < den THEN q
      ELSE IF 2 * r > den THEN q + 1
      ELSE IF q % 2 = 0 THEN q ELSE q + 1

\* round(np.mean(xs)), xs not empty
RoundedMean(xs) == round(Sum(xs), Len(xs))

\* self._test_result_path
TEST_RESULT_PATH == "C:\\Windows\\Temp\\sqlPerf.log*"

\* _GetLoadTestResult: cmd
GetLoadTestResultCmd == <<"Get-Content -Path ", TEST_RESULT_PATH, " -Encoding ascii">>

\* _DeleteTestResult: cmd
DeleteTestResultCmd == <<"Remove-Item -Path ", TEST_RESULT_PATH>>

\* a line of the performance log, from its fields
Row(fields) == Join(fields, ",")

\* the heading of the log: nine names
HeaderRow ==
  Row(<< <<"t">>, <<"a">>, <<"b">>, <<"c">>, <<"d">>, <<"e">>, <<"f">>, <<"g">>, <<"h">> >>)

\* 100,x,y,5,0,2,1,10,20
RowA ==
  Row(<< <<"1", "0", "0">>, <<"x">>, <<"y">>, <<"5">>, <<"0">>, <<"2">>, <<"1">>,
         <<"1", "0">>, <<"2", "0">> >>)

\* 200,3,4,7,1,3,2,12,22 and a carriage return
RowB ==
  Row(<< <<"2", "0", "0">>, <<"3">>, <<"4">>, <<"7">>, <<"1">>, <<"3">>, <<"2">>,
         <<"1", "2">>, <<"2", "2", "\r">> >>)

\* eight fields: 7,7,7,7,7,7,7,7
RowShort ==
  Row(<< <<"7">>, <<"7">>, <<"7">>, <<"7">>, <<"7">>, <<"7">>, <<"7">>, <<"7">> >>)

\* ten fields: 8,8,8,8,8,8,8,8,8,8
RowLong ==
  Row(<< <<"8">>, <<"8">>, <<"8">>, <<"8">>, <<"8">>, <<"8">>, <<"8">>, <<"8">>, <<"8">>,
         <<"8">> >>)

\* nine fields, the fourth no integer: 1,1,1,n/a,1,1,1,1,1
RowNotInt ==
  Row(<< <<"1">>, <<"1">>, <<"1">>, <<"n", "/", "a">>, <<"1">>, <<"1">>, <<"1">>, <<"1">>,
         <<"1">> >>)

\* the lines a log may have after its first
ResultRowSet == {RowA, RowB, RowShort, RowLong, RowNotInt, <<>>}

\* the first line of a log: the heading, or a line of numbers
FirstRows == {HeaderRow, RowA}

\* the most lines a log of the model has after its first
MaxRows == 2

\* what Get-Content may return
ResultTexts ==
  { Join(<<first>> \o rows, "\n") :
      first \in FirstRows,
      rows \in UNION { [1..n -> ResultRowSet] : n \in 0..MaxRows } }

\* the same, with the columns of the two wait times exchanged
MetricColumnSwapped ==
  [m \in MetricSet |->
     CASE m = "trans_per_sec"         -> 0
       [] m = "lock_reqs_per_sec"     -> 3
       [] m = "lock_timeouts_per_sec" -> 4
       [] m = "lock_waits_per_sec"    -> 5
       [] m = "deadlocks_per_sec"     -> 6
       [] m = "wait_time"             -> 8
       [] m = "latch_wait_time"       -> 7]

\* the index into cols that each metric's samples are taken from
MetricColumn ==
  [m \in MetricSet |->
     CASE m = "trans_per_sec"         -> 0
       [] m = "lock_reqs_per_sec"     -> 3
       [] m = "lock_timeouts_per_sec" -> 4
       [] m = "lock_waits_per_sec"    -> 5
       [] m = "deadlocks_per_sec"     -> 6
       [] m = "wait_time"             -> 7
       [] m = "latch_wait_time"       -> 8]

\* rows of nine fields or more
IsWellFormedOrLonger(cols) == Len(cols) >= 9

\* the rows the loop does not skip: len(cols) != 9 is skipped
IsWellFormed(cols) == Len(cols) = 9

\* self._GetLoadTestResult().split('\n')[1:], each row split on ','
ResultCols(text) ==
  LET rows == Tail(SplitOn(text, "\n")) IN
  [j \in 1..Len(rows) |-> SplitOn(rows[j], ",")]

\* cols[k], counted from 0 as in the code
Col(cols, k) == cols[k + 1]

NoSamples == [m \in MetricSet |-> <<>>]

\* testLoadTestWithAgentInstalled passes agent_installed=True, testLoadTest
\* leaves the default
AgentInstalledRun == test = "testLoadTestWithAgentInstalled"

\* the statement after ProcessLoadTestResult, the last one of both load tests
AfterProcess(s) == IF s = "ProcessLoadTestResult" THEN "passed" ELSE s

\* ProcessLoadTestResult(agent_installed): the seven sample lists start empty.
\* The load test calls it once without and once with the agent installed.
ProcessLoadTestResult_Begin ==
  /\ pc = "idle"
  /\ helper = "LoadtestHelper"
  /\ step \in {"", "ProcessLoadTestResult"}
  /\ \E ai \in BOOLEAN \ processed :
       /\ (step = "ProcessLoadTestResult" => ai = AgentInstalledRun)
       /\ agent_installed' = ai
       /\ processed' = processed \cup {ai}
  /\ op' = "ProcessLoadTestResult"
  /\ samples' = NoSamples
  /\ trace' = <<>>
  /\ responses' = <<>>
  /\ pc' = "GetLoadTestResult"
  /\ UNCHANGED <<cfgVars, testVars, setupVars, exc, pollVars, agentVars, renderVars,
                 raw_log, mean, mean_agent_installed, report>>

\* _GetLoadTestResult: read the log on the SQL Server VM
GetLoadTestResult ==
  /\ pc = "GetLoadTestResult"
  /\ trace' = Append(trace, Cmd("_GetLoadTestResult", "_vm_sqlserver", GetLoadTestResultCmd))
  /\ \E err \in StdErrs, text \in ResultTexts :
       /\ responses' = Append(responses, Response("_GetLoadTestResult", text, err))
       /\ IF err # <<>>
          THEN exc' = Raise("RunLoadTestError", err) /\ pc' = "raised"
               /\ UNCHANGED raw_log
          ELSE raw_log' = text /\ pc' = "ParseRows" /\ UNCHANGED exc
  /\ UNCHANGED <<cfgVars, testVars, setupVars, op, pollVars, agentVars, renderVars, agent_installed, samples,
                 mean, mean_agent_installed, report, processed>>

\* the loop over the rows: a row of nine fields gives each list one int(...)
ProcessLoadTestResult_ParseRows ==
  /\ pc = "ParseRows"
  /\ LET kept == SelectSeq(ResultCols(raw_log), IsWellFormed) IN
     IF \E j \in 1..Len(kept), m \in MetricSet : ~IsInt(Col(kept[j], MetricColumn[m]))
     THEN exc' = Raise("ValueError", <<>>) /\ pc' = "raised" /\ UNCHANGED samples
     ELSE /\ samples' = [m \in MetricSet |->
                           [j \in 1..Len(kept) |-> int(Col(kept[j], MetricColumn[m]))]]
          /\ pc' = "StoreMeans"
          /\ UNCHANGED exc
  /\ UNCHANGED <<cfgVars, testVars, setupVars, op, trace, responses, pollVars, agentVars, renderVars,
                 agent_installed, raw_log, mean, mean_agent_installed, report, processed>>

\* the seven means written whatever agent_installed is
BaselineMeansAlways(means) == means

\* if agent_installed: ... else: self.mean_<m> = mean_<m>
BaselineMeans(means) == IF agent_installed THEN mean ELSE means

\* if agent_installed: self.mean_<m>_agent_installed = mean_<m>
AgentInstalledMeans(means) == IF agent_installed THEN means ELSE mean_agent_installed

\* round(np.mean(...)) of each list, stored in the fields agent_installed selects;
\* the mean of an empty list is nan, and round(nan) raises ValueError
ProcessLoadTestResult_StoreMeans ==
  /\ pc = "StoreMeans"
  /\ IF samples[Metrics[1]] = <<>>
     THEN exc' = Raise("ValueError", <<>>) /\ pc' = "raised"
          /\ UNCHANGED <<mean, mean_agent_installed>>
     ELSE /\ LET means == [m \in MetricSet |-> RoundedMean(samples[m])] IN
               /\ mean' = BaselineMeans(means)
               /\ mean_agent_installed' = AgentInstalledMeans(means)
          /\ pc' = "DeleteTestResult"
          /\ UNCHANGED exc
  /\ UNCHANGED <<cfgVars, testVars, setupVars, op, trace, responses, pollVars, agentVars, renderVars,
                 agent_installed, raw_log, samples, report, processed>>

\* _DeleteTestResult, the last statement: after it the call has returned, the
\* locals are gone and the helper waits for the next call
DeleteTestResult ==
  /\ pc = "DeleteTestResult"
  /\ \E err \in StdErrs :
       IF err # <<>>
       THEN /\ trace' = Append(trace, Cmd("_DeleteTestResult", "_vm_sqlserver",
                                          DeleteTestResultCmd))
            /\ responses' = Append(responses, Response("_DeleteTestResult", <<>>, err))
            /\ exc' = Raise("RunLoadTestError", err)
            /\ pc' = "raised"
            /\ UNCHANGED <<op, raw_log, samples, result_log, step>>
       ELSE /\ trace' = <<>>
            /\ responses' = <<>>
            /\ op' = ""
            /\ raw_log' = <<>>
            /\ samples' = NoSamples
            /\ result_log' = {}
            /\ pc' = "idle"
            /\ step' = AfterProcess(step)
            /\ UNCHANGED exc
  /\ UNCHANGED <<cfgVars, test, failed, calls, bucket, day, hour, script, config, jobs,
                 pollVars, agentVars, renderVars, agent_installed, mean,
                 mean_agent_installed, report, processed>>

\* the agent-installed mean the report shows under mean_<m>_agent_installed
AgentInstalledShown(m) ==
  IF m = "lock_reqs_per_sec" THEN mean_agent_installed["lock_waits_per_sec"]
  ELSE mean_agent_installed[m]

\* diff_<m> = abs(self.mean_<m> - self.mean_<m>_agent_installed)
diff(m) == abs(mean[m] - mean_agent_installed[m])

\* the guard of a diff line, looking at the other mean
EmitDiffAgentInstalled(m) == mean_agent_installed[m] # 0

\* the guard of a diff line: if self.mean_<m> != 0
EmitDiff(m) == mean[m] # 0

\* one line of the report: its label and its value num / den
Line(label, num, den) == [label |-> label, num |-> num, den |-> den]

\* the two or three lines of a metric
MetricLines(m) ==
  << Line(<<"mean_", m>>, mean[m], 1),
     Line(<<"mean_", m, "_agent_installed">>, AgentInstalledShown(m), 1) >>
  \o IF EmitDiff(m)
     THEN << Line(<<"diff_", m>>, diff(m) * 100, mean[m]) >>
     ELSE <<>>

\* GenerateLoadTestResult: the report, metric by metric; a division by 0 raises
\* ZeroDivisionError
GenerateLoadTestResult ==
  /\ pc = "idle"
  /\ helper = "LoadtestHelper"
  /\ op' = "GenerateLoadTestResult"
  /\ IF \E m \in MetricSet : EmitDiff(m) /\ mean[m] = 0
     THEN exc' = Raise("ZeroDivisionError", <<>>) /\ pc' = "raised" /\ UNCHANGED report
     ELSE /\ report' = Concat([k \in 1..Len(Metrics) |-> MetricLines(Metrics[k])])
          /\ pc' = "returned"
          /\ UNCHANGED exc
  /\ UNCHANGED <<cfgVars, testVars, setupVars, trace, responses, pollVars, agentVars, renderVars,
                 agent_installed, raw_log, samples, mean, mean_agent_installed, processed>>

NextLoad ==
  \/ ProcessLoadTestResult_Begin
  \/ GetLoadTestResult
  \/ ProcessLoadTestResult_ParseRows
  \/ ProcessLoadTestResult_StoreMeans
  \/ DeleteTestResult
  \/ GenerateLoadTestResult

SpecLoad == InitLoadtest /\ [][NextLoad]_vars

(***************************************************************************)
(* The load test: LoadTest.testLoadTest, statement by statement.           *)
(***************************************************************************)

\* self._background_job_name
BackgroundJobName == "run-load-test-background"

\* the job RunSqlScripts(background=True) starts on the HammerDB VM
BackgroundJob == [host |-> "_vm_hammerdb", name |-> BackgroundJobName]

\* texts of load_test/run_loadtest.sql
SqlScripts == {
  <<"E", "X", "E", "C", " ", "p", "\n">>,
  <<"G", "O">> }

\* texts of load_test/virtualusers.tcl
VirtualUserScripts == { <<"v", "u", "r", "u", "n", "\n">> }

\* RunSqlScripts: cmd
RunSqlCmd(file_name, pw, ip, background) ==
  LET cmd == <<"sqlcmd -U sa -P ">> \o pw \o <<" -S ">> \o ip
             \o <<" -i", " ", "'">> \o HammerDbPath \o <<"\\", file_name, "'">>
  IN  IF background
      THEN <<"Start-Job -ScriptBlock {">> \o cmd \o <<"}", " -Name ", BackgroundJobName>>
      ELSE cmd

\* StopBackgroundJob: cmd
StopJobCmd == <<"Stop-Job -Name ", BackgroundJobName>>

\* one blob name for both uploads
UploadBlobOneName(ai) == <<"loadtest-{current_time}", ".txt">>

\* {self._raw_data_file_name_prefix}-agent_installed.txt or {...}.txt
UploadBlob(ai) ==
  <<"loadtest-{current_time}", IF ai THEN "-agent_installed.txt" ELSE ".txt">>

\* UploadLoadTestResultToBucket: cmd
UploadResultCmd(ai) ==
  <<"gsutil cp ", TEST_RESULT_PATH, " ",
    "gs://sql-server-agent-integration/loadtest-rawdata/">> \o UploadBlob(ai)

\* RunSqlScripts('run_loadtest.sql', background=True): save the script
RunSqlScripts_Save ==
  /\ step = "RunSqlScripts"
  /\ pc = "idle"
  /\ op' = "RunSqlScripts"
  /\ \E text \in SqlScripts, err \in StdErrs :
       /\ file_content' = text
       /\ trace' = <<Cmd("_SaveFileToHammerDBFolder", "_vm_hammerdb",
                         SaveFileCmd("run_loadtest.sql", text))>>
       /\ responses' = <<Response("_SaveFileToHammerDBFolder", <<>>, err)>>
       /\ IF err # <<>>
          THEN exc' = Raise("RunLoadTestError", err) /\ pc' = "raised"
          ELSE pc' = "RunSql" /\ UNCHANGED exc
  /\ UNCHANGED <<cfgVars, testVars, setupVars, pollVars, agentVars, aggregatorVars, server_ip, pswd,
                 result>>

\* RunSqlScripts: start sqlcmd as a background job; the call returns while the
\* job goes on, writing the rows of this test to the result log; the locals
\* of the call are gone when it has returned
RunSqlScripts_Run ==
  /\ pc = "RunSql"
  /\ \E pw \in Passwords, ip \in ServerIps, err \in StdErrs :
       /\ trace' = Append(trace, Cmd("RunSqlScripts", "_vm_hammerdb",
                                     RunSqlCmd("run_loadtest.sql", pw, ip, TRUE)))
       /\ responses' = Append(responses, Response("RunSqlScripts", <<>>, err))
       /\ IF err # <<>>
          THEN /\ exc' = Raise("RunSQLScriptError", err)
               /\ pc' = "raised"
               /\ pswd' = pw
               /\ server_ip' = ip
               /\ UNCHANGED <<jobs, step, result_log, file_content>>
          ELSE /\ jobs' = jobs \cup {BackgroundJob}
               /\ result_log' = result_log \cup {test}
               /\ pc' = "idle"
               /\ step' = "RunVirtualUsers"
               /\ pswd' = <<>>
               /\ server_ip' = <<>>
               /\ file_content' = <<>>
               /\ UNCHANGED exc
  /\ UNCHANGED <<cfgVars, test, failed, calls, bucket, day, hour, op, pollVars, agentVars,
                 aggregatorVars, result, script, config>>

\* RunVirtualUsers: save virtualusers.tcl
RunVirtualUsers_Save ==
  /\ step = "RunVirtualUsers"
  /\ pc = "idle"
  /\ op' = "RunVirtualUsers"
  /\ \E text \in VirtualUserScripts, err \in StdErrs :
       /\ file_content' = text
       /\ trace' = <<Cmd("_SaveFileToHammerDBFolder", "_vm_hammerdb",
                         SaveFileCmd("virtualusers.tcl", text))>>
       /\ responses' = <<Response("_SaveFileToHammerDBFolder", <<>>, err)>>
       /\ IF err # <<>>
          THEN exc' = Raise("RunLoadTestError", err) /\ pc' = "raised"
          ELSE pc' = "RunVirtualUsers" /\ UNCHANGED exc
  /\ UNCHANGED <<cfgVars, testVars, setupVars, pollVars, agentVars, aggregatorVars, server_ip, pswd,
                 result>>

\* RunVirtualUsers: run hammerdbcli on virtualusers.tcl and wait for it
RunVirtualUsers_Run ==
  /\ pc = "RunVirtualUsers"
  /\ trace' = Append(trace, Cmd("_RunTclScripts", "_vm_hammerdb",
                                RunTclCmd("virtualusers.tcl")))
  /\ \E err \in StdErrs, stdout \in TclOutputs :
       /\ responses' = Append(responses, Response("_RunTclScripts", stdout, err))
       /\ IF err # <<>> \/ Contains(stdout, ErrorWord)
          THEN /\ exc' = Raise("HammerDbSetupError", <<>>)
               /\ pc' = "raised"
               /\ UNCHANGED <<step, file_content>>
          ELSE /\ pc' = "idle"
               /\ step' = "StopBackgroundJob"
               /\ file_content' = <<>>
               /\ UNCHANGED exc
  /\ UNCHANGED <<cfgVars, testVars, op, pollVars, agentVars, aggregatorVars, server_ip, pswd,
                 result, script, config, jobs>>

\* StopBackgroundJob: stop the job
StopBackgroundJob ==
  /\ step = "StopBackgroundJob"
  /\ pc = "idle"
  /\ op' = "StopBackgroundJob"
  /\ trace' = <<Cmd("StopBackgroundJob", "_vm_hammerdb", StopJobCmd)>>
  /\ \E err \in StdErrs, stdout \in StdOuts :
       /\ responses' = <<Response("StopBackgroundJob", stdout, err)>>
       /\ IF err # <<>>
          THEN exc' = Raise("RunSQLScriptError", err) /\ pc' = "raised"
               /\ UNCHANGED <<jobs, step>>
          ELSE /\ jobs' = jobs \ {BackgroundJob}
               /\ pc' = "idle"
               /\ step' = "UploadLoadTestResultToBucket"
               /\ UNCHANGED exc
  /\ UNCHANGED <<cfgVars, testVars, pollVars, agentVars, loadtestVars, script, config>>

\* UploadLoadTestResultToBucket(agent_installed): copy the log to the bucket,
\* stderr not looked at; the blob is there when the command has returned
UploadLoadTestResultToBucket ==
  /\ step = "UploadLoadTestResultToBucket"
  /\ pc = "idle"
  /\ op' = "UploadLoadTestResultToBucket"
  /\ trace' = <<Cmd("UploadLoadTestResultToBucket", "_vm_sqlserver",
                    UploadResultCmd(AgentInstalledRun))>>
  /\ \E err \in StdErrs, stdout \in StdOuts :
       responses' = <<Response("UploadLoadTestResultToBucket", stdout, err)>>
  /\ bucket' = Append(bucket, UploadBlob(AgentInstalledRun))
  /\ step' = "ProcessLoadTestResult"
  /\ UNCHANGED <<cfgVars, test, failed, calls, result_log, day, hour, pc, exc, pollVars, agentVars, loadtestVars, script, config, jobs>>

\* the LoadtestHelper of the test class, at the first statement of testLoadTest
InitLoadTest ==
  /\ helper = "LoadtestHelper"
  /\ windows = TRUE
  /\ repo_version = "unstable"
  /\ InitCall
  /\ step = "RunSqlScripts"
  /\ test = "testLoadTest"

NextLoadTest ==
  \/ RunSqlScripts_Save
  \/ RunSqlScripts_Run
  \/ RunVirtualUsers_Save
  \/ RunVirtualUsers_Run
  \/ StopBackgroundJob
  \/ UploadLoadTestResultToBucket
  \/ ProcessLoadTestResult_Begin
  \/ GetLoadTestResult
  \/ ProcessLoadTestResult_ParseRows
  \/ ProcessLoadTestResult_StoreMeans
  \/ DeleteTestResult

SpecLoadTest == InitLoadTest /\ [][NextLoadTest]_vars

(***************************************************************************)
(* The test class LoadTest: testLoadTest, testLoadTestWithAgentInstalled   *)
(* and testTestResult, run by unittest in this (alphabetical) order on the *)
(* one LoadtestHelper of the class; a test that raises has failed and the  *)
(* next one runs.                                                          *)
(***************************************************************************)

LoadTests == <<"testLoadTest", "testLoadTestWithAgentInstalled", "testTestResult">>

\* the AgentHelper statements with the service started before it is configured
LifecycleStartFirst ==
  <<"AddRepo", "InstallAgent", "StartService", "UpdateConfiguration", "VerifyAgentRunning">>

\* testLoadTestWithAgentInstalled: the statements on ah, an
\* AgentHelper(self.vm_sqlserver, True, 'unstable')
Lifecycle ==
  <<"AddRepo", "InstallAgent", "UpdateConfiguration", "StartService", "VerifyAgentRunning">>

LifecycleStatements == {Lifecycle[k] : k \in 1..Len(Lifecycle)}

\* the first statement of a test of LoadTest
FirstStatement(t) ==
  IF t = "testLoadTest" THEN "RunSqlScripts"
  ELSE IF t = "testLoadTestWithAgentInstalled" THEN Lifecycle[1]
  ELSE "GenerateLoadTestResult"

\* the object a statement is called on: ah or self.lt_helper
HelperOf(s) == IF s \in LifecycleStatements THEN "AgentHelper" ELSE "LoadtestHelper"

\* the statement after a statement on ah
AfterLifecycle(s) ==
  LET k == CHOOSE j \in 1..Len(Lifecycle) : Lifecycle[j] = s IN
    IF k < Len(Lifecycle) THEN Lifecycle[k + 1] ELSE "RunSqlScripts"

testLoadTestWithAgentInstalled_AddRepo == step = "AddRepo" /\ AddRepo

testLoadTestWithAgentInstalled_InstallAgent == step = "InstallAgent" /\ InstallAgent_Begin

testLoadTestWithAgentInstalled_UpdateConfiguration ==
  step = "UpdateConfiguration" /\ UpdateConfiguration_Begin

testLoadTestWithAgentInstalled_StartService == step = "StartService" /\ StartService_Begin

testLoadTestWithAgentInstalled_VerifyAgentRunning ==
  step = "VerifyAgentRunning" /\ VerifyAgentRunning_Begin

\* a statement on ah has returned: its locals are gone, the next statement runs
testLoadTestWithAgentInstalled_Returned ==
  /\ test = "testLoadTestWithAgentInstalled"
  /\ step \in LifecycleStatements
  /\ pc = "returned"
  /\ calls' = Append(calls, op)
  /\ step' = AfterLifecycle(step)
  /\ helper' = HelperOf(step')
  /\ pc' = "idle"
  /\ trace' = <<>>
  /\ responses' = <<>>
  /\ status' = <<>>
  /\ log_out' = <<>>
  /\ config' = <<>>
  /\ UNCHANGED <<windows, repo_version, op, exc, pollVars, target_vm_id, loadtestVars,
                 script, jobs, test, failed, result_log, bucket, day, hour>>

\* testTestResult
testTestResult_GenerateLoadTestResult ==
  step = "GenerateLoadTestResult" /\ GenerateLoadTestResult

\* a load test has passed or has raised: unittest runs the next test method
LoadTest_NextTest ==
  /\ test \in {LoadTests[1], LoadTests[2]}
  /\ pc = "raised" \/ step = "passed"
  /\ failed' = IF pc = "raised" THEN failed \cup {test} ELSE failed
  /\ test' = IF test = LoadTests[1] THEN LoadTests[2] ELSE LoadTests[3]
  /\ step' = FirstStatement(test')
  /\ helper' = HelperOf(step')
  /\ op' = ""
  /\ pc' = "idle"
  /\ exc' = NoException
  /\ trace' = <<>>
  /\ responses' = <<>>
  /\ calls' = <<>>
  /\ file_content' = <<>>
  /\ server_ip' = <<>>
  /\ pswd' = <<>>
  /\ raw_log' = <<>>
  /\ samples' = NoSamples
  /\ status' = <<>>
  /\ log_out' = <<>>
  /\ config' = <<>>
  /\ UNCHANGED <<windows, repo_version, pollVars, target_vm_id, result, agent_installed,
                 mean, mean_agent_installed, report, processed, script, jobs,
                 result_log, bucket, day, hour>>

\* after setUpClass, at the first statement of the first test
InitLoadTestClass ==
  /\ helper = "LoadtestHelper"
  /\ windows = TRUE
  /\ repo_version = "unstable"
  /\ InitCall
  /\ test = LoadTests[1]
  /\ step = FirstStatement(LoadTests[1])

NextLoadTestClass ==
  \/ NextLoadTest
  \/ testLoadTestWithAgentInstalled_AddRepo
  \/ testLoadTestWithAgentInstalled_InstallAgent
  \/ InstallAgent_Install
  \/ VerifyAgentInstallation
  \/ testLoadTestWithAgentInstalled_UpdateConfiguration
  \/ UpdateConfiguration
  \/ testLoadTestWithAgentInstalled_StartService
  \/ ServiceStatus
  \/ StopService
  \/ DeleteLogFile
  \/ StartService_Start
  \/ testLoadTestWithAgentInstalled_VerifyAgentRunning
  \/ VerifyAgentRunning_ReadLog
  \/ testLoadTestWithAgentInstalled_Returned
  \/ testTestResult_GenerateLoadTestResult
  \/ LoadTest_NextTest

SpecLoadTestClass == InitLoadTestClass /\ [][NextLoadTestClass]_vars

(***************************************************************************)
(* The soak test: SoakTest.testSoakTest, statement by statement.           *)
(***************************************************************************)

\* the four targets with the Linux VMs first
SoakTargetsLinuxFirst == <<VM_ID_RHEL, VM_ID_SUSE, VM_ID_WIN_LOCAL, VM_ID_WIN_REMOTE>>

\* the targets of the four SetUpAgent calls
SoakTargets == <<VM_ID_WIN_LOCAL, VM_ID_WIN_REMOTE, VM_ID_RHEL, VM_ID_SUSE>>

\* for _ in range(10)
SoakDays == 10

\* for _ in range(24)
SoakHours == 24

\* time.sleep(3600)
SoakSleepSeconds == 3600

\* the next SetUpAgent call of the test
testSoakTest_SetUpAgent ==
  /\ test = "testSoakTest"
  /\ step = "SetUpAgent"
  /\ SetUpAgentCall(SoakTargets[Len(calls) + 1])

\* a SetUpAgent call has returned: the next call, or the loop after the last
testSoakTest_Returned ==
  /\ test = "testSoakTest"
  /\ step = "SetUpAgent"
  /\ pc = "returned"
  /\ calls' = Append(calls, <<op, target_vm_id>>)
  /\ step' = IF Len(calls') < Len(SoakTargets) THEN "SetUpAgent" ELSE "KeepAlive"
  /\ pc' = "idle"
  /\ trace' = <<>>
  /\ responses' = <<>>
  /\ script' = <<>>
  /\ config' = <<>>
  /\ UNCHANGED <<cfgVars, op, exc, pollVars, agentVars, loadtestVars, jobs,
                 test, failed, result_log, bucket, day, hour>>

\* the body of the inner loop
testSoakTest_Sleep ==
  /\ step = "KeepAlive"
  /\ day < SoakDays
  /\ hour < SoakHours
  /\ trace' = Append(trace, Sleep("testSoakTest", SoakSleepSeconds))
  /\ hour' = hour + 1
  /\ UNCHANGED <<cfgVars, op, pc, exc, responses, pollVars, agentVars, loadtestVars,
                 setupVars, test, failed, calls, result_log, bucket, day>>

\* the inner loop has ended: the next iteration of the outer loop
testSoakTest_NextDay ==
  /\ step = "KeepAlive"
  /\ day < SoakDays
  /\ hour = SoakHours
  /\ day' = day + 1
  /\ hour' = 0
  /\ UNCHANGED <<cfgVars, op, pc, trace, exc, responses, pollVars, agentVars,
                 loadtestVars, setupVars, test, failed, calls, result_log, bucket>>

\* the outer loop has ended: the test returns
testSoakTest_End ==
  /\ step = "KeepAlive"
  /\ day = SoakDays
  /\ step' = "passed"
  /\ UNCHANGED <<cfgVars, op, pc, trace, exc, responses, pollVars, agentVars,
                 loadtestVars, script, config, jobs, testVars>>

\* after setUpClass: an IntegrationHelper('unstable', ...) at the first statement
InitSoakTest ==
  /\ helper = "IntegrationHelper"
  /\ windows = TRUE
  /\ repo_version = "unstable"
  /\ InitCall
  /\ test = "testSoakTest"
  /\ step = "SetUpAgent"

NextSoakTest ==
  \/ testSoakTest_SetUpAgent
  \/ testSoakTest_Returned
  \/ testSoakTest_Sleep
  \/ testSoakTest_NextDay
  \/ testSoakTest_End

\* the test is one thread that keeps running: every call and every sleep returns
SpecSoakTest == InitSoakTest /\ [][NextSoakTest]_vars /\ WF_vars(NextSoakTest)

(***************************************************************************)
(* Every helper, one operation at a time.                                  *)
(***************************************************************************)

\* a helper object of any of the four classes
InitHelpers ==
  \/ Init
  \/ InitSetUp
  \/ InitLoadtest

NextHelpers ==
  \/ NextPoll
  \/ NextAgent
  \/ NextInstall
  \/ NextSetUp
  \/ NextRender
  \/ NextLoad

SpecHelpers == InitHelpers /\ [][NextHelpers]_vars

(***************************************************************************)
(* Claims about the result aggregator, under SpecLoad.                     *)
(***************************************************************************)

\* the columns of the seven metrics, in the order of Metrics
SpecColumns == <<0, 3, 4, 5, 6, 7, 8>>

\* the lines of the log after its first that split on ',' into exactly nine fields
WellFormedRows ==
  LET lines == SplitOn(raw_log, "\n")
      later == [j \in 1..(Len(lines) - 1) |-> SplitOn(lines[j + 1], ",")]
  IN  SelectSeq(later, LAMBDA cols : Len(cols) = 9)

\* the column of metric number k in the well-formed rows, as integers
ColumnValues(k) ==
  [j \in 1..Len(WellFormedRows) |-> int(WellFormedRows[j][SpecColumns[k] + 1])]

\* ProcessLoadTestResult has gone through the rows of the log
RowsParsed ==
  op = "ProcessLoadTestResult" /\ pc \in {"StoreMeans", "DeleteTestResult"}

\* C8: once ProcessLoadTestResult has gone through the log, each of the seven
\* sample lists holds exactly the values of its column in the lines after the
\* first that have nine fields, one per such line and in their order: nothing
\* comes from the first line or from a line with another number of fields.
C8_SamplesAreWellFormedRows ==
  RowsParsed =>
     \A k \in 1..Len(Metrics) : samples[Metrics[k]] = ColumnValues(k)

\* a log whose first line is a row of numbers, followed by a row of ten fields
\* and a row of nine: only the last gives samples
C8_Witness ==
  /\ RowsParsed
  /\ raw_log = Join(<<RowA, RowLong, RowB>>, "\n")
  /\ \A k \in 1..Len(Metrics) : Len(samples[Metrics[k]]) = 1
  /\ samples["trans_per_sec"] = <<200>>

\* ProcessLoadTestResult has stored its means
MeansStored == op = "ProcessLoadTestResult" /\ pc = "DeleteTestResult"

\* the mean ProcessLoadTestResult has stored for a metric
StoredMean(m) == IF agent_installed THEN mean_agent_installed[m] ELSE mean[m]

\* C9: when the log has a well-formed row, each mean ProcessLoadTestResult stores
\* is an integer nearest to the arithmetic mean of the metric's own column
\* (0, 3, 4, 5, 6, 7, 8) over the well-formed rows: it is at most one half away
\* from sum / n. Columns 1 and 2 take no part in it.
C9_StoredMeanIsRoundedColumnMean ==
  (MeansStored /\ WellFormedRows # <<>>) =>
     \A k \in 1..Len(Metrics) :
        LET n == Len(WellFormedRows)
            total == Sum(ColumnValues(k))
        IN  2 * abs(n * StoredMean(Metrics[k]) - total) <= n

\* the rows 100,... and 200,... give the mean 150 for column 0, whatever columns
\* 1 and 2 hold (x and y in the first row)
C9_Witness ==
  /\ MeansStored
  /\ raw_log = Join(<<HeaderRow, RowA, RowB>>, "\n")
  /\ ~agent_installed
  /\ mean["trans_per_sec"] = 150
  /\ mean["lock_reqs_per_sec"] = 6
  /\ mean["latch_wait_time"] = 21

\* GenerateLoadTestResult has run
Generated == op = "GenerateLoadTestResult" /\ pc \in {"returned", "raised"}

\* the report has a diff_ line for the metric
HasDiffLine(m) == \E k \in 1..Len(report) : report[k].label = <<"diff_", m>>

\* C10: GenerateLoadTestResult returns without a division by zero, and its report
\* has the diff_ line of a metric exactly when the metric's baseline mean is not 0.
C10_DiffLineIffBaselineNonZero ==
  Generated =>
     /\ pc = "returned"
     /\ \A k \in 1..Len(report) : report[k].den # 0
     /\ \A m \in MetricSet : HasDiffLine(m) <=> mean[m] # 0

\* both means stored; one metric has baseline 0 and a non-zero mean with the
\* agent installed and has no diff_ line, another has one
C10_Witness ==
  /\ Generated
  /\ processed = {TRUE, FALSE}
  /\ \E m \in MetricSet :
       mean[m] = 0 /\ mean_agent_installed[m] # 0 /\ ~HasDiffLine(m)
  /\ \E m \in MetricSet : mean[m] # 0 /\ HasDiffLine(m)

(***************************************************************************)
(* Claims about the lifecycle driver, under SpecAgent.                     *)
(***************************************************************************)

\* VerifyAgentRunning has read the log with empty stderr (and so, in
\* AgentHelper, has found the status it expects)
LogWasRead ==
  /\ op = "VerifyAgentRunning"
  /\ responses # <<>>
  /\ responses[Len(responses)].op = "VerifyAgentRunning"
  /\ responses[Len(responses)].err = <<>>

\* the lines of the log that begin with the error marker, in log order
MatchingLines ==
  SelectSeq(SplitOn(log_out, "\n"), LAMBDA l : StartsWith(l, ErrorMarker))

\* the lines of an error message after its fixed first line, each taken up to
\* its line break
MessageLines(msg) ==
  LET body == SubSeq(msg, Len(ErrorHeader) + 1, Len(msg))
      pieces == SplitOn(body, "\n")
  IN  SubSeq(pieces, 1, Len(pieces) - 1)

\* C5 as written: with the log read, VerifyAgentRunning returns normally iff no
\* line begins with the marker, and otherwise raises AgentExecutionError whose
\* message holds exactly the matching lines, as they are in the log, in order.
C5_MessageHoldsMatchingLines ==
  LogWasRead =>
     IF MatchingLines = <<>>
     THEN pc = "returned" /\ exc = NoException
     ELSE /\ pc = "raised"
          /\ exc.type = "AgentExecutionError"
          /\ StartsWith(exc.msg, ErrorHeader)
          /\ MessageLines(exc.msg) = MatchingLines

\* C5 amended: ... whose message holds every matching line with its leading and
\* trailing whitespace removed (str.strip), in log order, and nothing else.
C5_MessageHoldsStrippedMatchingLines ==
  LogWasRead =>
     IF MatchingLines = <<>>
     THEN pc = "returned" /\ exc = NoException
     ELSE /\ pc = "raised"
          /\ exc.type = "AgentExecutionError"
          /\ StartsWith(exc.msg, ErrorHeader)
          /\ MessageLines(exc.msg) =
               [k \in 1..Len(MatchingLines) |-> Strip(MatchingLines[k])]
          /\ exc.msg[Len(exc.msg)] = "\n"

C5_Witness ==
  /\ LogWasRead
  /\ pc = "raised"
  /\ Len(MatchingLines) = 2
  /\ MatchingLines[1] # MatchingLines[2]
  /\ Len(SplitOn(log_out, "\n")) > 2

\* the operations whose commands StartService issues once it has read 'Running'
RestartOrder == <<"_ServiceStatus", "_StopService", "_DeleteLogFile", "StartService">>

\* the Windows command each of them sends
RestartCommands ==
  << <<"$(Get-Service -Name", SQL_SERVER_AGENT_NAME, ").Status">>,
     <<"Stop-Service -Name", SQL_SERVER_AGENT_NAME>>,
     <<"Remove-Item -Path", SQL_SERVER_AGENT_LOG_PATH_WINDOWS>>,
     <<"Start-Service -Name", SQL_SERVER_AGENT_NAME>> >>

\* StartService has read the status and it is 'Running'
FoundRunning ==
  /\ op = "StartService"
  /\ responses # <<>>
  /\ responses[1].err = <<>>
  /\ status = RunningText

\* C6: when StartService finds the status 'Running', the commands it issues are
\* the status query, Stop-Service, the log-file delete and Start-Service, in
\* this order; Start-Service is issued only after the stop and the delete both
\* returned empty stderr, and it is issued before StartService returns.
C6_StopDeleteBeforeStart ==
  FoundRunning =>
     /\ Len(trace) <= 4
     /\ Len(responses) = Len(trace)
     /\ \A k \in 1..Len(trace) :
          /\ trace[k].kind = "cmd"
          /\ trace[k].op = RestartOrder[k]
          /\ trace[k].host = "_vm"
          /\ windows => trace[k].cmd = RestartCommands[k]
     /\ (Len(trace) = 4 => responses[2].err = <<>> /\ responses[3].err = <<>>)
     /\ (pc = "returned" => Len(trace) = 4 /\ responses[4].err = <<>>)
     /\ (pc = "StartCommand" => Len(trace) = 3)

C6_Witness ==
  /\ FoundRunning
  /\ windows
  /\ pc = "returned"
  /\ Len(trace) = 4

(***************************************************************************)
(* Claims about the evaluation poller, under SpecPoll.                     *)
(***************************************************************************)

\* what _GetExecutionStatus did so far: its commands and sleeps, in order
PollEvents == SelectSeq(trace, LAMBDA e : e.op = "_GetExecutionStatus")

PollCmds == SelectSeq(PollEvents, LAMBDA e : e.kind = "cmd")

PollSleeps == SelectSeq(PollEvents, LAMBDA e : e.kind = "sleep")

\* what the status commands returned so far
PollResponses == SelectSeq(responses, LAMBDA r : r.op = "_GetExecutionStatus")

\* every status command so far returned empty stderr
NoPollErr == \A k \in 1..Len(PollResponses) : PollResponses[k].err = <<>>

\* every status response so far has state RUNNING
AllRunning == \A k \in 1..Len(PollResponses) : PollResponses[k].out = "RUNNING"

\* the last response is the first whose state is not RUNNING, and it has a state
FirstNonRunningIsLast ==
  /\ PollResponses # <<>>
  /\ NoPollErr
  /\ \A k \in 1..(Len(PollResponses) - 1) : PollResponses[k].out = "RUNNING"
  /\ PollResponses[Len(PollResponses)].out \notin {"RUNNING", "#"}

\* k polls with a sleep of 60 s between two consecutive ones, and nothing else
KPollsThenStop(k) ==
  [j \in 1..(2 * k - 1) |->
     IF j % 2 = 1 THEN Cmd("_GetExecutionStatus", EvalHost, StatusCmd)
     ELSE Sleep("_GetExecutionStatus", 60)]

\* C1: one poll sequence issues at most 10 status-poll remote commands, whatever
\* the responses are (stated as written; the all-RUNNING run issues 11).
C1_AtMostTenPolls == Len(PollCmds) <= 10

\* C2: if every status response has state RUNNING and every status command
\* returns empty stderr, the poll step goes on polling without an exception
\* until the loop is used up, and then returns 'FAILED'; it never raises.
C2_AllRunningReturnsFailed ==
  (PollResponses # <<>> /\ NoPollErr /\ AllRunning) =>
     \/ /\ pc = "PollLoop"
        /\ exc = NoException
        /\ i = Len(PollResponses) - 1
        /\ i <= PollLoopCount
     \/ /\ pc = "PollReturned"
        /\ exc = NoException
        /\ execution_status = "FAILED"
        /\ i = PollLoopCount
     \/ /\ pc = "raised"
        /\ execution_status = "FAILED"
        /\ exc = Raise("EvaluationExecutionError", <<execution_id, evaluation_id>>)

C2_Witness ==
  /\ pc = "PollReturned"
  /\ NoPollErr /\ AllRunning
  /\ Len(PollResponses) = PollLoopCount + 1
  /\ execution_status = "FAILED"

\* C3: if the first non-RUNNING status response is the k-th (1 <= k <= 10), the
\* poll step returns that response's state after exactly k polls and k-1 sleeps
\* of 60 s, and neither polls nor sleeps after that response.
C3_StopsAtFirstNonRunning ==
  (FirstNonRunningIsLast /\ Len(PollResponses) <= 10) =>
     LET k == Len(PollResponses) IN
     /\ PollEvents = KPollsThenStop(k)
     /\ Len(PollCmds) = k
     /\ Len(PollSleeps) = k - 1
     /\ exc.type \notin {"ValueError", "IndexError"}
     /\ \/ pc = "PollLoop" /\ i = k - 1 /\ exc = NoException
        \/ pc \in {"PollReturned", "returned", "raised"}
           /\ execution_status = PollResponses[k].out

C3_Witness ==
  /\ pc = "PollReturned"
  /\ FirstNonRunningIsLast
  /\ Len(PollResponses) = 10
  /\ execution_status = "SUCCEEDED"

\* C4: once the poll step has returned a state, VerifyEvaluationRun raises
\* EvaluationExecutionError if that state is 'FAILED' (the used-up loop
\* included) and returns normally for every other state.
C4_FailedRaisesElseReturns ==
  /\ (pc = "PollReturned" => exc = NoException /\ execution_status # "RUNNING")
  /\ (pc \in {"returned", "raised"} /\ execution_status # "") =>
        IF execution_status = "FAILED"
        THEN pc = "raised" /\ exc.type = "EvaluationExecutionError"
        ELSE pc = "returned" /\ exc = NoException
  /\ (pc = "returned" => execution_status # "")

C4_Witness ==
  /\ pc = "raised"
  /\ execution_status = "FAILED"
  /\ NoPollErr /\ AllRunning
  /\ Len(PollResponses) = PollLoopCount + 1

C4_WitnessReturns ==
  pc = "returned" /\ execution_status = "PENDING"

(***************************************************************************)
(* Claims about the installer, under SpecInstall.                          *)
(***************************************************************************)

\* AddRepo has ended
AddRepoEnded == op = "AddRepo" /\ pc \in {"returned", "raised"}

\* C12: on a Windows host with repo version google3, AddRepo issues exactly one
\* command, a gsutil cp, and returns normally with no exception, whatever the
\* command's stderr holds.
C12_Google3CopyReturns ==
  (AddRepoEnded /\ windows /\ repo_version = "google3") =>
     /\ pc = "returned"
     /\ exc = NoException
     /\ Len(trace) = 1
     /\ trace[1].kind = "cmd"
     /\ trace[1].cmd[1] = "gsutil cp "

\* the copy command wrote to stderr, and AddRepo has ended
C12_Witness ==
  /\ AddRepoEnded
  /\ windows
  /\ repo_version = "google3"
  /\ Len(responses) = 1
  /\ responses[1].err # <<>>

\* C13 as written: on a Windows host, for every repo version, AddRepo issues
\* exactly one remote command and ends by returning or by raising one of the
\* exceptions of exceptions.py.
C13_OneCommandTypedEnd ==
  (AddRepoEnded /\ windows) =>
     /\ Len(trace) = 1
     /\ (pc = "returned" \/ exc.type \in TypedExceptions)

\* C15 as written: the install command is the first command of InstallAgent and
\* the service query the second, issued only after the install command returned
\* empty stderr; InstallAgent returns only if both returned empty stderr.
C15_InstallFirstQuerySecond ==
  op = "InstallAgent" =>
     /\ Len(trace) <= 2
     /\ (Len(trace) >= 1 => trace[1].op = "InstallAgent")
     /\ (Len(trace) >= 2 =>
           trace[2].op = "_VerifyAgentInstallation" /\ responses[1].err = <<>>)
     /\ (pc = "returned" =>
           Len(trace) = 2 /\ \A k \in 1..2 : responses[k].err = <<>>)

\* C15, amended: the service query comes right after the install command and
\* only if that returned empty stderr; before the install command there is
\* nothing, or, with google3 on Windows, the one command that writes the
\* configuration, which returned empty stderr; InstallAgent returns only after
\* the query, with every command's stderr empty.
C15_InstallThenQuery ==
  op = "InstallAgent" =>
     /\ \A k \in 1..Len(trace) :
          /\ trace[k].op = "_VerifyAgentInstallation" =>
               k > 1 /\ trace[k - 1].op = "InstallAgent" /\ responses[k - 1].err = <<>>
          /\ trace[k].op = "InstallAgent" =>
               \/ k = 1
               \/ /\ k = 2
                  /\ windows /\ repo_version = "google3"
                  /\ trace[1].op = "UpdateConfiguration"
                  /\ responses[1].err = <<>>
          /\ trace[k].op = "UpdateConfiguration" => k = 1
     /\ (pc = "returned" =>
           /\ trace # <<>>
           /\ trace[Len(trace)].op = "_VerifyAgentInstallation"
           /\ \A k \in 1..Len(responses) : responses[k].err = <<>>)

\* InstallAgent returned after writing the configuration, installing, querying
C15_Witness ==
  /\ op = "InstallAgent"
  /\ pc = "returned"
  /\ Len(trace) = 3
  /\ trace[2].op = "InstallAgent"
  /\ trace[3].op = "_VerifyAgentInstallation"

\* C19 as written: every command string an AgentHelper operation passes to
\* RunCommandOnVm is non-empty, whatever the windows flag and the repo version.
C19_CommandsNonEmpty ==
  \A k \in 1..Len(trace) : trace[k].kind = "cmd" => trace[k].cmd # <<>>

(***************************************************************************)
(* Claims about the script senders and the error rule, under SpecSetUp.    *)
(***************************************************************************)

\* the operation has ended
Ended == pc \in {"returned", "raised"}

\* command number k of the trace is a bucket copy
IsBucketCopy(k) == trace[k].cmd # <<>> /\ StartsWith(trace[k].cmd, <<"gsutil cp ">>)

\* C11 as written: an operation that got non-empty stderr from a remote command
\* other than a bucket copy (gsutil cp) ends by raising one of the exceptions of
\* exceptions.py.
C11_StderrRaisesTyped ==
  (Ended /\ \E k \in 1..Len(responses) : responses[k].err # <<>> /\ ~IsBucketCopy(k)) =>
     pc = "raised" /\ exc.type \in TypedExceptions

\* the names of the two Windows VM objects
RemoteWindowsHosts == {"_vm_win_remote", "vm_win_remote"}

LocalWindowsHosts == {"_vm_win_local", "vm_win_local"}

\* C17: every command of SetUpAgent, of IntegrationHelper.VerifyAgentRunning and
\* of RunUploadLogFileScript is run on the remote Windows VM if the target id is
\* VM_ID_WIN_REMOTE and on the local Windows VM for every other target id, so
\* never on the RHEL or SUSE VM object.
C17_ControlHostByTarget ==
  \A k \in 1..Len(trace) :
     (trace[k].op \in {"SetUpAgent", "VerifyAgentRunning", "RunUploadLogFileScript"}) =>
        /\ trace[k].host \in RemoteWindowsHosts <=> target_vm_id = VM_ID_WIN_REMOTE
        /\ trace[k].host \in LocalWindowsHosts <=> target_vm_id # VM_ID_WIN_REMOTE

\* SetUpAgent for the RHEL VM has sent its ssh command to the local Windows VM
C17_Witness ==
  /\ op = "SetUpAgent"
  /\ target_vm_id = VM_ID_RHEL
  /\ Len(trace) = 1
  /\ trace[1].host = "_vm_win_local"
  /\ trace[1].cmd[2] = VmIp(VM_ID_RHEL)

\* C18 as written: in the command SetUpAgent or RunUploadLogFileScript sends for
\* a Windows target, the script between the here-string marks has a grave accent
\* before every '$' and before every '@'.
C18_DollarAndAtEscaped ==
  (op \in {"SetUpAgent", "RunUploadLogFileScript"} /\ target_vm_id \in WindowsVmIds
   /\ trace # <<>>) =>
     /\ Contains(trace[1].cmd, <<"\n">> \o script \o <<"\n", "\"@ -Encoding">>)
     /\ \A j \in 1..Len(script) :
          script[j] \in {"$", "@"} => (j > 1 /\ script[j - 1] = Backtick)

(***************************************************************************)
(* A further claim about the lifecycle driver, under SpecAgent.            *)
(***************************************************************************)

\* C16 as written: in both helpers VerifyAgentRunning returns normally only if
\* it read the service status and the status was the running value of the
\* host's OS, and a status that is read and is not the running value gives
\* AgentExecutionError.
C16_ReturnsOnlyIfRunning ==
  op = "VerifyAgentRunning" =>
     /\ pc = "returned" =>
          /\ \E k \in 1..Len(trace) :
               trace[k].op = "_ServiceStatus" /\ responses[k].err = <<>>
          /\ status = ExpectedStatus
     /\ \A k \in 1..Len(responses) :
          (responses[k].op = "_ServiceStatus" /\ responses[k].err = <<>>
           /\ status # ExpectedStatus) =>
             pc = "raised" /\ exc.type = "AgentExecutionError"

(***************************************************************************)
(* A claim about every helper operation, under SpecHelpers.                *)
(***************************************************************************)

C20_NoCommandWhileJobRuns ==
  [][(trace' # trace /\ trace' # <<>>) =>
        \A j \in jobs : j.host # trace'[Len(trace')].host]_vars

(***************************************************************************)
(* More claims about the result aggregator, under SpecLoad.                *)
(***************************************************************************)

\* C22: while ProcessLoadTestResult(agent_installed=False) runs, the seven
\* agent-installed means do not change, and while
\* ProcessLoadTestResult(agent_installed=True) runs, the seven baseline means do
\* not change; the report changes in neither.
C22_OtherMeansUnchanged ==
  [][op = "ProcessLoadTestResult" =>
       /\ report' = report
       /\ (agent_installed => mean' = mean)
       /\ (~agent_installed => mean_agent_installed' = mean_agent_installed)]_vars

\* both calls have returned, each having stored the means of its own log
C22_Witness ==
  /\ processed = {TRUE, FALSE}
  /\ pc = "idle"
  /\ op = ""
  /\ mean["trans_per_sec"] = 100
  /\ mean_agent_installed["trans_per_sec"] = 200

\* C25: in the report of GenerateLoadTestResult, the line labelled
\* mean_<metric>_agent_installed shows the stored agent-installed mean of that
\* same metric, for each of the seven metrics.
C25_AgentInstalledLineShowsOwnMean ==
  Generated =>
    \A m \in MetricSet : \A k \in 1..Len(report) :
       report[k].label = <<"mean_", m, "_agent_installed">> =>
          report[k].num = mean_agent_installed[m] /\ report[k].den = 1

\* C27: once the log was fetched with empty stderr, ProcessLoadTestResult does
\* not raise before it deletes the log, whatever the text of the log is: an
\* exception can only come from the delete command.
C27_NoRaiseBeforeDelete ==
  (/\ op = "ProcessLoadTestResult"
   /\ pc = "raised"
   /\ responses # <<>>
   /\ responses[1].err = <<>>)
  => /\ Len(trace) = 2
     /\ trace[2].op = "_DeleteTestResult"

(***************************************************************************)
(* More claims about the lifecycle driver, under SpecAgent.                *)
(***************************************************************************)

\* StartService has read the status and it is not 'Running'
FoundNotRunning ==
  /\ op = "StartService"
  /\ responses # <<>>
  /\ responses[1].err = <<>>
  /\ status # RunningText

\* C28: when StartService reads a status other than 'Running', the commands it
\* issues are the status query and then Start-Service, and nothing else:
\* neither Stop-Service nor the log-file delete; it ends having issued both.
C28_OnlyStatusAndStart ==
  FoundNotRunning =>
     /\ Len(trace) <= 2
     /\ Len(responses) = Len(trace)
     /\ \A k \in 1..Len(trace) :
          /\ trace[k].kind = "cmd"
          /\ trace[k].host = "_vm"
          /\ trace[k].op = <<"_ServiceStatus", "StartService">>[k]
          /\ windows => trace[k].cmd = <<RestartCommands[1], RestartCommands[4]>>[k]
     /\ (pc = "StartCommand" => Len(trace) = 1)
     /\ (pc \in {"returned", "raised"} => Len(trace) = 2)

\* a stopped service was started with two commands
C28_Witness ==
  /\ FoundNotRunning
  /\ windows
  /\ status = StoppedText
  /\ pc = "returned"
  /\ Len(trace) = 2

(***************************************************************************)
(* More claims about the poller, under SpecPoll.                           *)
(***************************************************************************)

\* C26: the state the poll step returns is the state of the last status
\* response it fetched: it returns 'FAILED' for the exhausted budget only if
\* that last response had state RUNNING, and otherwise the state it returns is
\* the one the last response carries.
C26_ReturnsLastResponse ==
  execution_status # "" =>
     LET last == PollResponses[Len(PollResponses)].out IN
       IF last = "RUNNING" THEN execution_status = "FAILED"
       ELSE execution_status = last

\* the remote commands of the trace, without the sleeps
RemoteCmds == SelectSeq(trace, LAMBDA e : e.kind = "cmd")

\* evaluations[0]['name'].split('/')[-1] of the list response
FirstListedId ==
  LET parts == SplitOn(responses[1].out[1], "/") IN parts[Len(parts)]

\* C23: the remote calls of VerifyEvaluationRun are, in this order, the list
\* call, the trigger and then the polls; the trigger is issued only after the
\* list returned empty stderr, the first poll only after the trigger returned
\* empty stderr; the trigger and every poll carry the id of the first listed
\* evaluation and the one execution id generated in this call.
C23_ListTriggerPollSameIds ==
  op = "VerifyEvaluationRun" =>
     /\ Len(RemoteCmds) = Len(responses)
     /\ \A k \in 1..Len(RemoteCmds) :
          /\ RemoteCmds[k].host = EvalHost
          /\ RemoteCmds[k].op = IF k = 1 THEN "_ListEvaluations"
                                ELSE IF k = 2 THEN "_RunEvaluation"
                                ELSE "_GetExecutionStatus"
     /\ (Len(RemoteCmds) >= 2 =>
           /\ responses[1].err = <<>>
           /\ responses[1].out # <<>>
           /\ evaluation_id = FirstListedId
           /\ execution_id \in ExecutionIds
           /\ windows => RemoteCmds[2].cmd =
                 <<"POST", endpoint, FirstListedId, "executions:run", execution_id>>)
     /\ (Len(RemoteCmds) >= 3 => responses[2].err = <<>>)
     /\ \A k \in 3..Len(RemoteCmds) :
          windows => RemoteCmds[k].cmd =
            <<"GET", endpoint, FirstListedId, "executions", execution_id>>

\* two evaluations were listed, the first one was triggered with the second
\* execution id and polled twice
C23_Witness ==
  /\ op = "VerifyEvaluationRun"
  /\ windows
  /\ pc = "returned"
  /\ Len(responses[1].out) = 2
  /\ responses[1].out[1] # responses[1].out[2]
  /\ execution_id = "uuid-2"
  /\ Len(PollCmds) = 2

(***************************************************************************)
(* Claims about the test class LoadTest, under SpecLoadTestClass.          *)
(***************************************************************************)

\* the lifecycle operations in the order the claim gives them
C21_Order ==
  <<"AddRepo", "InstallAgent", "UpdateConfiguration", "StartService", "VerifyAgentRunning">>

\* the agent states the claim names, one per number of operations that returned
AgentState ==
  <<"NotInstalled", "RepoAdded", "Installed", "Configured", "Running", "Verified">>
    [Len(calls) + 1]

\* the operations that returned so far are the first ones of the order, the
\* statement that runs is the next one, and the load statements run only
\* after all five returned
C21_CallsFollowOrder ==
  test = "testLoadTestWithAgentInstalled" =>
     /\ Len(calls) <= Len(C21_Order)
     /\ \A k \in 1..Len(calls) : calls[k] = C21_Order[k]
     /\ IF Len(calls) < Len(C21_Order)
        THEN /\ step = C21_Order[Len(calls) + 1]
             /\ helper = "AgentHelper"
             /\ pc # "idle" => op = step
        ELSE /\ AgentState = "Verified"
             /\ step \notin {C21_Order[k] : k \in 1..Len(C21_Order)}

\* C21: in testLoadTestWithAgentInstalled the lifecycle operations run in the
\* order AddRepo, InstallAgent, UpdateConfiguration, StartService,
\* VerifyAgentRunning; an operation is added to those that returned only when
\* it has returned without an exception, so the agent state advances one
\* step at a time and never moves back.
C21_LifecycleInOrder ==
  /\ []C21_CallsFollowOrder
  /\ [][(test = "testLoadTestWithAgentInstalled" /\ test' = test) =>
          \/ calls' = calls
          \/ /\ calls' = Append(calls, op)
             /\ op = C21_Order[Len(calls) + 1]
             /\ pc = "returned"
             /\ exc = NoException]_vars

\* all five operations returned and the load statements begin
C21_Witness ==
  /\ test = "testLoadTestWithAgentInstalled"
  /\ calls = C21_Order
  /\ AgentState = "Verified"
  /\ step = "RunSqlScripts"
  /\ helper = "LoadtestHelper"

\* the blob name the claim expects for the upload of a load test
C29_BlobOf(t) ==
  IF t = "testLoadTestWithAgentInstalled"
  THEN <<"loadtest-{current_time}", "-agent_installed.txt">>
  ELSE <<"loadtest-{current_time}", ".txt">>

C24_Order ==
  << <<"SetUpAgent", VM_ID_WIN_LOCAL>>, <<"SetUpAgent", VM_ID_WIN_REMOTE>>,
     <<"SetUpAgent", VM_ID_RHEL>>, <<"SetUpAgent", VM_ID_SUSE>> >>

\* the calls that returned are the first ones of the order and the call that
\* runs is the next one; in the loop all four have returned and everything
\* done since is a sleep of one hour, at most 240 of them and exactly 240 when
\* the test has ended
C24_CallsThenSleeps ==
  test = "testSoakTest" =>
     /\ Len(calls) <= 4
     /\ \A k \in 1..Len(calls) : calls[k] = C24_Order[k]
     /\ (step = "SetUpAgent" =>
           /\ Len(calls) < 4
           /\ pc = "returned" =>
                /\ Len(trace) = 1
                /\ trace[1].kind = "cmd"
                /\ <<op, target_vm_id>> = C24_Order[Len(calls) + 1])
     /\ (step \in {"KeepAlive", "passed"} =>
           /\ Len(calls) = 4
           /\ Len(trace) <= 240
           /\ \A k \in 1..Len(trace) :
                trace[k].kind = "sleep" /\ trace[k].cmd = <<3600>>)
     /\ (step = "passed" => Len(trace) = 240)

====
